---- MODULE Spec2Model ----
(***************************************************************************)
(* Model of turkicnlp's morphological analysis core:                       *)
(* ApertiumMorphProcessor (processors/morphology.py) with the tag mapper   *)
(* (resources/tag_mappings) and the transliterator (scripts) it uses.      *)
(*                                                                         *)
(* Representation.  A Python str is a sequence of one-character strings    *)
(* (<<"A","l","i">> is "Ali"), so that the per-character code (lower,      *)
(* category, normalisation, splitting, regex scanning) is modelled         *)
(* character by character.  Tag names and universal tags are short atomic  *)
(* strings ("dat", "NOUN", "Case=Dat").  A universal feature string is the *)
(* sequence of its '|'-separated pieces; the sentinel "_" is <<"_">>.      *)
(* Python's None is NoneText / NoneTag / NoneFeats.  A float FST weight w  *)
(* is the integer 10*w.  A character outside ASCII is written by a name:   *)
(* "cA","ca","cb",... are the Cyrillic letters U+0410, U+0430, U+0431,...; *)
(* "E^","e^" are U+00C9, U+00E9; "RSQ" is U+2019; "NDASH" is U+2013;       *)
(* "ZWNJ" is U+200C; "ACUTE" is the combining accent U+0301; "LSQ" is       *)
(* U+2018; "MTC", "MAP", "MPR" are the modifier letters U+02BB, U+02BC,     *)
(* U+02B9; "ACC" is the acute accent U+00B4; "PRM" is the prime U+2032;     *)
(* "GRAVE" is the grave accent U+0060.                                      *)
(***************************************************************************)
EXTENDS Integers, Sequences, FiniteSets, TLC

VARIABLES
    cfg,        \* the processor: scripts, needs_translit, lexicon, analyzer (FST), loaded
    doc,        \* doc.sentences: sequence of sentences, each a sequence of words
    doc0,       \* history: the document as process() received it
    pc,         \* position of process(): "idle","pass1","tagger","pass2","log","done","raised"
    si,         \* index of the sentence being processed
    wi,         \* index of the word being processed
    rbw,        \* readings_by_word of the current sentence
    tagged,     \* tagged_readings of the current sentence
    lookups,    \* history: per sentence, per word, the surfaces handed to the FST, in order,
                \* and the readings _analyze_with_fallback returned
    path,       \* history: per sentence, per word, the branch of process() that wrote the word
    stage,      \* history: per sentence, per word, the states of the word so far
    log,        \* doc._processor_log
    dz,         \* the _disambiguate harness: its arguments and the results of two calls
    call        \* a call of one function on its own: its name, its arguments, its outcome

vars == <<cfg, doc, doc0, pc, si, wi, rbw, tagged, lookups, path, stage, log, dz, call>>

NoneText == <<"None">>
NoneTag == "None"
NoneFeats == <<"None">>
Underscore == <<"_">>

\* ------------------------------------------------------------------------
\* Sequence helpers
\* ------------------------------------------------------------------------
RECURSIVE Cat(_)
Cat(s) == IF s = <<>> THEN "" ELSE Head(s) \o Cat(Tail(s))

RECURSIVE Flatten(_)
Flatten(ss) == IF ss = <<>> THEN <<>> ELSE Head(ss) \o Flatten(Tail(ss))

Range(s) == {s[i] : i \in 1..Len(s)}

RECURSIVE SelectSeqIdx(_, _, _)
\* the first index i >= from with s[i] = c, or 0
SelectSeqIdx(s, c, from) ==
    IF from > Len(s) THEN 0
    ELSE IF s[from] = c THEN from
    ELSE SelectSeqIdx(s, c, from + 1)

IndexOf(s, c) == SelectSeqIdx(s, c, 1)

RECURSIVE LastIndexOf(_, _)
LastIndexOf(s, c) ==
    IF s = <<>> THEN 0
    ELSE IF s[Len(s)] = c THEN Len(s)
    ELSE LastIndexOf(SubSeq(s, 1, Len(s) - 1), c)

\* str.split(c): the pieces between occurrences of c (empty pieces kept)
RECURSIVE Split(_, _)
Split(s, c) ==
    LET i == IndexOf(s, c)
    IN IF i = 0 THEN <<s>>
       ELSE <<SubSeq(s, 1, i - 1)>> \o Split(SubSeq(s, i + 1, Len(s)), c)

\* ------------------------------------------------------------------------
\* Characters: the part of Unicode the model's texts are written in
\* ------------------------------------------------------------------------
\* str.lower() / str.upper(): <<upper-case letter, lower-case letter>>
LowerPairs ==
    \* Latin A B E L M N W E-acute I Y-acute C H S G O and Cyrillic A BE IE EL EM EN
    \* I, short I, E (U+042D), hard sign, soft sign, YA, ES, HA, CHE, SHA, SHCHA,
    \* GHE, GHE with stroke (U+0492), O, short U (U+040E)
    LET upper == <<"A", "B", "E", "L", "M", "N", "W", "E^", "cA", "cB", "cE", "cL",
                  "cM", "cN", "I", "Y^", "cI", "cJ", "cEE", "cHS", "cSS", "cYA", "C",
                  "H", "S", "cS", "cH", "cCH", "cSH", "cSHCH", "G", "O", "cG", "cGH",
                  "cO", "cUW">>
        lowered == <<"a", "b", "e", "l", "m", "n", "w", "e^", "ca", "cb", "ce", "cl",
                    "cm", "cn", "i", "y^", "ci", "cj", "cee", "chs", "css", "cya",
                    "c", "h", "s", "cs", "ch", "cch", "csh", "cshch", "g", "o", "cg",
                    "cgh", "co", "cuw">>
    IN {<<upper[i], lowered[i]>> : i \in 1..Len(upper)}

UpperLetters == {p[1] : p \in LowerPairs}
LowerLetters == {p[2] : p \in LowerPairs}
Digits == {"1", "5"}
Hyphens == {"-", "NDASH"}
ZeroWidth == {"ZWNJ"}
Combining == {"ACUTE"}

\* unicodedata.category(ch)
category(ch) ==
    IF ch \in UpperLetters THEN "Lu"
    ELSE IF ch \in LowerLetters THEN "Ll"
    ELSE IF ch \in Digits THEN "Nd"
    ELSE IF ch = "'" \/ ch = "." \/ ch = "?" THEN "Po"
    ELSE IF ch = "RSQ" THEN "Pf"
    ELSE IF ch = "LSQ" THEN "Pi"
    ELSE IF ch = "PRM" THEN "Po"
    ELSE IF ch \in {"MTC", "MAP", "MPR"} THEN "Lm"
    ELSE IF ch \in {"GRAVE", "ACC"} THEN "Sk"
    ELSE IF ch \in Hyphens THEN "Pd"
    ELSE IF ch \in ZeroWidth THEN "Cf"
    ELSE IF ch \in Combining THEN "Mn"
    ELSE "Sm"      \* the markup characters of FST output: < > ^ $ / @ tab

lower_ch(ch) ==
    IF ch \in UpperLetters THEN (CHOOSE p \in LowerPairs : p[1] = ch)[2] ELSE ch

upper_ch(ch) ==
    IF ch \in LowerLetters THEN (CHOOSE p \in LowerPairs : p[2] = ch)[1] ELSE ch

isalpha_ch(ch) == category(ch) \in {"Lu", "Ll", "Lm"}
isupper_ch(ch) == category(ch) = "Lu"

lower(text) == [i \in 1..Len(text) |-> lower_ch(text[i])]

\* str.isalpha(): non-empty and every character alphabetic
isalpha(text) == text # <<>> /\ \A i \in 1..Len(text) : isalpha_ch(text[i])

\* text[:1].isupper()
first_isupper(text) == text # <<>> /\ isupper_ch(text[1])

\* unicodedata.normalize("NFD", ch): the accented letters decompose
NFD_ch(ch) ==
    IF ch = "E^" THEN <<"E", "ACUTE">>
    ELSE IF ch = "e^" THEN <<"e", "ACUTE">>
    ELSE <<ch>>

\* unicodedata.normalize("NFC", text): a base letter and its accent compose
RECURSIVE NFC(_)
NFC(text) ==
    IF Len(text) < 2 THEN text
    ELSE IF text[1] = "E" /\ text[2] = "ACUTE" THEN <<"E^">> \o NFC(SubSeq(text, 3, Len(text)))
    ELSE IF text[1] = "e" /\ text[2] = "ACUTE" THEN <<"e^">> \o NFC(SubSeq(text, 3, Len(text)))
    ELSE <<text[1]>> \o NFC(Tail(text))

NFD(text) == Flatten([i \in 1..Len(text) |-> NFD_ch(text[i])])

\* unicodedata.normalize("NFKC", text): no character of the alphabet has a
\* compatibility decomposition, so NFKC composes and changes nothing else
NFKC(text) == NFC(NFD(text))

\* ------------------------------------------------------------------------
\* Surface normalisation (morphology.py)
\* ------------------------------------------------------------------------
is_punctuation_token(text) ==
    /\ text # <<>>
    /\ \A i \in 1..Len(text) : category(text[i]) \in {"Po", "Pf", "Pd"}

\* _QUESTION_PARTICLES, the members that can be written in the model's alphabet
QUESTION_PARTICLES ==
    {<<"m", "a">>, <<"m", "e">>, <<"b", "a">>, <<"b", "e">>,
     <<"cm", "ce">>, <<"cm", "ca">>, <<"cb", "ca">>, <<"cb", "ce">>}

is_question_particle(text) == lower(text) \in QUESTION_PARTICLES

\* re.sub(r"'+", "'", text)
RECURSIVE collapse_apostrophes(_)
collapse_apostrophes(text) ==
    IF Len(text) < 2 THEN text
    ELSE IF text[1] = "'" /\ text[2] = "'" THEN collapse_apostrophes(Tail(text))
    ELSE <<text[1]>> \o collapse_apostrophes(Tail(text))

\* str.rstrip("'")
RECURSIVE rstrip_apostrophes(_)
rstrip_apostrophes(text) ==
    IF text # <<>> /\ text[Len(text)] = "'"
    THEN rstrip_apostrophes(SubSeq(text, 1, Len(text) - 1))
    ELSE text

\* apostrophe_variants, the members of the model's alphabet
apostrophe_variants == {"RSQ"}

normalize_for_lookup(surface) ==
    LET n1 == NFKC(surface)
        n2 == SelectSeq(n1, LAMBDA ch : ch \notin ZeroWidth)
        n3 == [i \in 1..Len(n2) |-> IF n2[i] \in apostrophe_variants THEN "'" ELSE n2[i]]
        n4 == collapse_apostrophes(n3)
    IN IF n4 # <<>> /\ n4[Len(n4)] = "'" /\ Len(n4) > 1
       THEN rstrip_apostrophes(n4)
       ELSE n4

\* _HYPHEN_CHARS, the members of the model's alphabet
HYPHEN_CHARS == {"-", "NDASH"}

normalize_hyphens(text) ==
    [i \in 1..Len(text) |-> IF text[i] \in HYPHEN_CHARS THEN "-" ELSE text[i]]

strip_diacritics(text) ==
    NFC(SelectSeq(NFD(text), LAMBDA ch : category(ch) # "Mn"))

\* add(value): append unless empty or already a candidate
add(candidates, value) ==
    IF value # <<>> /\ value \notin Range(candidates)
    THEN Append(candidates, value)
    ELSE candidates

lookup_variants_lower_first(surface) ==
    LET normalized == normalize_hyphens(normalize_for_lookup(surface))
        stripped == strip_diacritics(normalized)
        c1 == add(<<>>, lower(surface))
        c2 == add(c1, surface)
        c3 == add(c2, normalized)
        c4 == add(c3, lower(normalized))
        c5 == add(c4, stripped)
    IN add(c5, lower(stripped))

lookup_variants(surface) ==
    LET normalized == normalize_hyphens(normalize_for_lookup(surface))
        stripped == strip_diacritics(normalized)
        c1 == add(<<>>, surface)
        c2 == add(c1, lower(surface))
        c3 == add(c2, normalized)
        c4 == add(c3, lower(normalized))
        c5 == add(c4, stripped)
    IN add(c5, lower(stripped))

lexeme_key(text) ==
    lower(strip_diacritics(normalize_hyphens(normalize_for_lookup(text))))

\* _is_cased_script: decided by the first alphabetic character
is_cased_script(text) ==
    LET alphas == SelectSeq(text, isalpha_ch)
    IN alphas # <<>> /\ lower_ch(alphas[1]) # upper_ch(alphas[1])

is_numeric_token(text) ==
    /\ \A i \in 1..Len(text) :
          category(text[i]) = "Nd" \/ text[i] \in {".", ",", "/", "-", "%", "+"}
    /\ \E i \in 1..Len(text) : category(text[i]) = "Nd"

\* a position test that holds for every word of a sentence with a lexical word
is_sentence_initial_anywhere(sentence_words, word_index) ==
    /\ word_index # 0
    /\ \E i \in 1..Len(sentence_words) :
          sentence_words[i].text # <<>> /\ ~is_punctuation_token(sentence_words[i].text)

\* _is_sentence_initial(sentence_words, word_index); a sentence is a sequence of
\* words, word_index counts from 1, and 0 stands for 'no sentence given' (None)
is_sentence_initial(sentence_words, word_index) ==
    IF word_index = 0 THEN FALSE
    ELSE LET lexical == {i \in 1..Len(sentence_words) :
                            /\ sentence_words[i].text # <<>>
                            /\ ~is_punctuation_token(sentence_words[i].text)}
         IN lexical # {} /\ word_index = CHOOSE i \in lexical : \A j \in lexical : i <= j

\* ------------------------------------------------------------------------
\* Transliterator (scripts/transliterator.py)
\* ------------------------------------------------------------------------
\* TRANSLITERATION_TABLES[name], the keys written in the model's alphabet, as
\* <<key, value>> pairs.  (No multi-character key of the Kazakh tables, "sh",
\* "ch", "ya", ..., can occur in a text over this alphabet.)
TRANSLITERATION_TABLES(name) ==
    IF name = "kaz_Latn_to_Cyrl" THEN
        {<<<<"a">>, <<"ca">>>>, <<<<"A">>, <<"cA">>>>, <<<<"b">>, <<"cb">>>>,
         <<<<"B">>, <<"cB">>>>, <<<<"e">>, <<"ce">>>>, <<<<"E">>, <<"cE">>>>,
         <<<<"l">>, <<"cl">>>>, <<<<"L">>, <<"cL">>>>, <<<<"m">>, <<"cm">>>>,
         <<<<"M">>, <<"cM">>>>, <<<<"n">>, <<"cn">>>>, <<<<"N">>, <<"cN">>>>,
         <<<<"s", "h", "c", "h">>, <<"cshch">>>>, <<<<"S", "h", "c", "h">>, <<"cSHCH">>>>,
         <<<<"s", "h">>, <<"csh">>>>, <<<<"S", "h">>, <<"cSH">>>>, <<<<"S", "H">>, <<"cSH">>>>,
         <<<<"c", "h">>, <<"cch">>>>, <<<<"C", "h">>, <<"cCH">>>>, <<<<"C", "H">>, <<"cCH">>>>,
         <<<<"s">>, <<"cs">>>>, <<<<"S">>, <<"cS">>>>, <<<<"h">>, <<"ch">>>>,
         <<<<"H">>, <<"cH">>>>}
    ELSE IF name = "kaz_Cyrl_to_Latn" THEN
        {<<<<"ca">>, <<"a">>>>, <<<<"cA">>, <<"A">>>>, <<<<"cb">>, <<"b">>>>,
         <<<<"cB">>, <<"B">>>>, <<<<"ce">>, <<"e">>>>, <<<<"cE">>, <<"E">>>>,
         <<<<"cl">>, <<"l">>>>, <<<<"cL">>, <<"L">>>>, <<<<"cm">>, <<"m">>>>,
         <<<<"cM">>, <<"M">>>>, <<<<"cn">>, <<"n">>>>, <<<<"cN">>, <<"N">>>>,
         <<<<"cee">>, <<"e">>>>, <<<<"cEE">>, <<"E">>>>,
         <<<<"chs">>, <<>>>>, <<<<"css">>, <<>>>>}
    ELSE IF name = "uzb_Latn_to_Cyrl" THEN
        {<<<<"g", "'">>, <<"cgh">>>>, <<<<"G", "'">>, <<"cGH">>>>,
         <<<<"o", "'">>, <<"cuw">>>>, <<<<"O", "'">>, <<"cUW">>>>,
         <<<<"'">>, <<"chs">>>>,
         <<<<"g">>, <<"cg">>>>, <<<<"G">>, <<"cG">>>>,
         <<<<"o">>, <<"co">>>>, <<<<"O">>, <<"cO">>>>}
    ELSE IF name = "tuk_Cyrl_to_Latn" THEN
        {<<<<"ca">>, <<"a">>>>, <<<<"cA">>, <<"A">>>>, <<<<"ce">>, <<"e">>>>,
         <<<<"cE">>, <<"E">>>>, <<<<"ci">>, <<"i">>>>, <<<<"cI">>, <<"I">>>>,
         <<<<"cj">>, <<"y^">>>>, <<<<"cJ">>, <<"Y^">>>>, <<<<"cl">>, <<"l">>>>,
         <<<<"cL">>, <<"L">>>>, <<<<"cee">>, <<"e">>>>, <<<<"cEE">>, <<"E">>>>,
         <<<<"cya">>, <<"y^", "a">>>>, <<<<"cYA">>, <<"Y^", "a">>>>,
         <<<<"chs">>, <<>>>>, <<<<"css">>, <<>>>>}
    ELSE IF name = "tuk_Latn_to_Cyrl" THEN
        {<<<<"y^", "a">>, <<"cya">>>>, <<<<"Y^", "a">>, <<"cYA">>>>,
         <<<<"Y^", "A">>, <<"cYA">>>>,
         <<<<"y^">>, <<"cj">>>>, <<<<"Y^">>, <<"cJ">>>>,
         <<<<"a">>, <<"ca">>>>, <<<<"A">>, <<"cA">>>>, <<<<"e">>, <<"ce">>>>,
         <<<<"E">>, <<"cE">>>>, <<<<"i">>, <<"ci">>>>, <<<<"I">>, <<"cI">>>>,
         <<<<"l">>, <<"cl">>>>, <<<<"L">>, <<"cL">>>>}
    ELSE {}

has_key(fmap, chunk) == \E e \in fmap : e[1] = chunk
map_get(fmap, chunk) == (CHOOSE e \in fmap : e[1] = chunk)[2]

Min(a, b) == IF a < b THEN a ELSE b

\* the re-casing of a lower-case match for a chunk that begins in upper case
recase(mapped) ==
    IF Len(mapped) > 1 THEN <<upper_ch(mapped[1])>> \o Tail(mapped)
    ELSE [i \in 1..Len(mapped) |-> upper_ch(mapped[i])]

\* Transliterator.transliterate, the generic greedy longest match (lengths 4 to 1)
RECURSIVE transliterate_from_shortest_match(_, _)
transliterate_from_shortest_match(fmap, text) ==
    IF text = <<>> THEN <<>>
    ELSE LET lens == {k \in 1..Min(4, Len(text)) :
                         \/ has_key(fmap, SubSeq(text, 1, k))
                         \/ has_key(fmap, lower(SubSeq(text, 1, k)))}
         IN IF lens = {} THEN <<text[1]>> \o transliterate_from_shortest_match(fmap, Tail(text))
            ELSE LET k == CHOOSE n \in lens : \A m \in lens : n <= m
                     chunk == SubSeq(text, 1, k)
                     out == IF has_key(fmap, chunk) THEN map_get(fmap, chunk)
                            ELSE IF isupper_ch(chunk[1])
                                 THEN recase(map_get(fmap, lower(chunk)))
                                 ELSE map_get(fmap, lower(chunk))
                 IN out \o transliterate_from_shortest_match(fmap, SubSeq(text, k + 1, Len(text)))

RECURSIVE transliterate_from(_, _)
transliterate_from(fmap, text) ==
    IF text = <<>> THEN <<>>
    ELSE LET lens == {k \in 1..Min(4, Len(text)) :
                         \/ has_key(fmap, SubSeq(text, 1, k))
                         \/ has_key(fmap, lower(SubSeq(text, 1, k)))}
         IN IF lens = {} THEN <<text[1]>> \o transliterate_from(fmap, Tail(text))
            ELSE LET k == CHOOSE n \in lens : \A m \in lens : m <= n
                     chunk == SubSeq(text, 1, k)
                     out == IF has_key(fmap, chunk) THEN map_get(fmap, chunk)
                            ELSE IF isupper_ch(chunk[1])
                                 THEN recase(map_get(fmap, lower(chunk)))
                                 ELSE map_get(fmap, lower(chunk))
                 IN out \o transliterate_from(fmap, SubSeq(text, k + 1, Len(text)))

\* one greedy longest match at text[i] among the lengths least..4:
\* <<the replacement, the length matched>>, length 0 when nothing matches
greedy(fmap, text, i, least) ==
    LET is_key(chunk) == has_key(fmap, chunk) \/ has_key(fmap, lower(chunk))
        mapped(chunk) ==
            IF has_key(fmap, chunk) THEN map_get(fmap, chunk)
            ELSE IF isupper_ch(chunk[1]) THEN recase(map_get(fmap, lower(chunk)))
            ELSE map_get(fmap, lower(chunk))
        longest(lens) ==
            IF lens = {} THEN 0 ELSE CHOOSE n \in lens : \A m \in lens : m <= n
        match(k) == IF k = 0 THEN <<<<>>, 0>> ELSE <<mapped(SubSeq(text, i, i + k - 1)), k>>
    IN match(longest({k \in least..Min(4, Len(text) - i + 1) :
                         is_key(SubSeq(text, i, i + k - 1))}))

tuk_e_after_every_sign(text, i) ==
    LET ch == text[i]
        prev == IF i > 1 THEN text[i - 1] ELSE ""
        word_initial == i = 1 \/ ~isalpha_ch(text[i - 1])
        needs_y == \/ word_initial
                   \/ prev \in {"ci", "cI", "coe", "cOE", "cue", "cUE", "cae", "cAE",
                                "chs", "cHS", "css", "cSS"}
    IN IF needs_y THEN (IF ch = "ce" THEN <<"y^", "e">> ELSE <<"Y^", "e">>)
       ELSE (IF ch = "ce" THEN <<"e">> ELSE <<"E">>)

\* the context-sensitive Turkmen Cyrillic e at text[i]
tuk_e(text, i) ==
    LET ch == text[i]
        prev == IF i > 1 THEN text[i - 1] ELSE ""
        word_initial == i = 1 \/ ~isalpha_ch(text[i - 1])
        needs_y == \/ word_initial
                   \/ prev \in {"ci", "cI", "coe", "cOE", "cue", "cUE", "cae", "cAE",
                                "chs", "cHS"}
    IN IF needs_y THEN (IF ch = "ce" THEN <<"y^", "e">> ELSE <<"Y^", "e">>)
       ELSE (IF ch = "ce" THEN <<"e">> ELSE <<"E">>)

\* Transliterator._transliterate_tuk_cyrl_to_latn, from position i
RECURSIVE transliterate_tuk_cyrl_to_latn(_, _, _)
transliterate_tuk_cyrl_to_latn(fmap, text, i) ==
    IF i > Len(text) THEN <<>>
    ELSE LET multi == greedy(fmap, text, i, 2)
             single == greedy(fmap, text, i, 1)
             ch == text[i]
         IN IF multi[2] > 0
            THEN multi[1] \o transliterate_tuk_cyrl_to_latn(fmap, text, i + multi[2])
            ELSE IF ch \in {"chs", "cHS", "css", "cSS"}
            THEN transliterate_tuk_cyrl_to_latn(fmap, text, i + 1)
            ELSE (IF ch \in {"ce", "cE"} THEN tuk_e(text, i)
                  ELSE IF single[2] > 0 THEN single[1]
                  ELSE <<ch>>)
                 \o transliterate_tuk_cyrl_to_latn(fmap, text, i + 1)

transliterate_tuk_without_ye(fmap, text, i) ==
    transliterate_from(fmap, SubSeq(text, i, Len(text)))

\* Transliterator._transliterate_tuk_latn_to_cyrl, from position i
RECURSIVE transliterate_tuk_latn_to_cyrl(_, _, _)
transliterate_tuk_latn_to_cyrl(fmap, text, i) ==
    IF i > Len(text) THEN <<>>
    ELSE LET two == IF i + 1 <= Len(text) THEN SubSeq(text, i, i + 1) ELSE <<>>
             match == greedy(fmap, text, i, 1)
         IN IF two \in {<<"y^", "e">>, <<"Y^", "e">>, <<"Y^", "E">>, <<"y^", "E">>}
            THEN (IF two \in {<<"y^", "e">>, <<"y^", "E">>} THEN <<"ce">> ELSE <<"cE">>)
                 \o transliterate_tuk_latn_to_cyrl(fmap, text, i + 2)
            ELSE IF match[2] > 0
            THEN match[1] \o transliterate_tuk_latn_to_cyrl(fmap, text, i + match[2])
            ELSE <<text[i]>> \o transliterate_tuk_latn_to_cyrl(fmap, text, i + 1)

normalize_uzb_apostrophes_right_quote_only(text) ==
    [i \in 1..Len(text) |-> IF text[i] = "RSQ" THEN "'" ELSE text[i]]

\* Transliterator._normalize_uzb_apostrophes
normalize_uzb_apostrophes(text) ==
    [i \in 1..Len(text) |->
        IF text[i] \in {"LSQ", "RSQ", "MTC", "MAP", "MPR", "GRAVE"} THEN "'" ELSE text[i]]

\* Transliterator.transliterate of the object whose table is TRANSLITERATION_TABLES[name]
\* (the Uzbek Cyrillic-to-Latin and the Uyghur branches are for tables that are
\* not in the model)
transliterate(name, text) ==
    IF name = "tuk_Cyrl_to_Latn"
    THEN transliterate_tuk_cyrl_to_latn(TRANSLITERATION_TABLES(name), text, 1)
    ELSE IF name = "tuk_Latn_to_Cyrl"
    THEN transliterate_tuk_latn_to_cyrl(TRANSLITERATION_TABLES(name), text, 1)
    ELSE transliterate_from(TRANSLITERATION_TABLES(name),
                            IF name = "uzb_Latn_to_Cyrl"
                            THEN normalize_uzb_apostrophes(text) ELSE text)

\* ------------------------------------------------------------------------
\* Tag mapping (resources/tag_mappings)
\* ------------------------------------------------------------------------
\* DEFAULT_POS_MAP
POS_MAP ==
    {<<"n", "NOUN">>, <<"np", "PROPN">>, <<"v", "VERB">>, <<"vaux", "AUX">>,
     <<"adj", "ADJ">>, <<"adv", "ADV">>, <<"prn", "PRON">>, <<"det", "DET">>,
     <<"post", "ADP">>, <<"cnjcoo", "CCONJ">>, <<"cnjsub", "SCONJ">>, <<"num", "NUM">>,
     <<"ij", "INTJ">>, <<"part", "PART">>, <<"punct", "PUNCT">>, <<"sym", "SYM">>}

to_ud_pos(apertium_pos) ==
    IF \E e \in POS_MAP : e[1] = apertium_pos
    THEN (CHOOSE e \in POS_MAP : e[1] = apertium_pos)[2]
    ELSE "X"

\* KazakhTagMapper.FEAT_MAP: tag -> the '|'-separated pieces of its value
FEAT_MAP ==
    {<<"nom", <<"Case=Nom">>>>, <<"gen", <<"Case=Gen">>>>, <<"dat", <<"Case=Dat">>>>,
     <<"acc", <<"Case=Acc">>>>, <<"abl", <<"Case=Abl">>>>, <<"loc", <<"Case=Loc">>>>,
     <<"ins", <<"Case=Ins">>>>,
     <<"sg", <<"Number=Sing">>>>, <<"pl", <<"Number=Plur">>>>,
     <<"p1", <<"Person=1">>>>, <<"p2", <<"Person=2">>>>, <<"p3", <<"Person=3">>>>,
     <<"past", <<"Tense=Past">>>>, <<"pres", <<"Tense=Pres">>>>,
     <<"fut", <<"Tense=Fut">>>>, <<"aor", <<"Tense=Aor">>>>,
     <<"ind", <<"Mood=Ind">>>>, <<"imp", <<"Mood=Imp">>>>, <<"opt", <<"Mood=Opt">>>>,
     <<"cond", <<"Mood=Cnd">>>>,
     <<"px1sg", <<"Number[psor]=Sing", "Person[psor]=1">>>>,
     <<"px2sg", <<"Number[psor]=Sing", "Person[psor]=2">>>>,
     <<"px3sp", <<"Number[psor]=Sing", "Person[psor]=3">>>>}

\* the universal feature pieces, in ascending order of their code points (the
\* order sorted() gives strings)
UD_ORDER ==
    <<"Case=Abl", "Case=Acc", "Case=Dat", "Case=Gen", "Case=Ins", "Case=Loc", "Case=Nom",
      "Mood=Cnd", "Mood=Imp", "Mood=Ind", "Mood=Nec", "Mood=Opt", "NumType=Card",
      "Number=Plur",
      "Number=Sing", "Number[psor]=Sing", "Person=1", "Person=2", "Person=3",
      "Person[psor]=1", "Person[psor]=2", "Person[psor]=3", "PronType=Ind",
      "PronType=Prs",
      "Tense=Aor", "Tense=Fut", "Tense=Past", "Tense=Pres">>

Rank(piece) == IndexOf(UD_ORDER, piece)

\* a < b for two tuples of integers, compared as Python compares tuples
RECURSIVE key_less(_, _)
key_less(a, b) ==
    IF b = <<>> THEN FALSE
    ELSE IF a = <<>> THEN TRUE
    ELSE IF Head(a) # Head(b) THEN Head(a) < Head(b)
    ELSE key_less(Tail(a), Tail(b))

\* an insertion that puts an item before the items of equal key
RECURSIVE insert_before_equal(_, _)
insert_before_equal(sorted, x) ==
    IF sorted = <<>> THEN <<x>>
    ELSE IF ~key_less(Head(sorted)[1], x[1]) THEN <<x>> \o sorted
    ELSE <<Head(sorted)>> \o insert_before_equal(Tail(sorted), x)

\* list.sort(key=...) / sorted(): a stable sort of <<key, item>> pairs; an
\* item goes after the items whose key is not greater than its own
RECURSIVE insert_sorted(_, _)
insert_sorted(sorted, x) ==
    IF sorted = <<>> THEN <<x>>
    ELSE IF key_less(x[1], Head(sorted)[1]) THEN <<x>> \o sorted
    ELSE <<Head(sorted)>> \o insert_sorted(Tail(sorted), x)

RECURSIVE sort_from(_, _)
sort_from(done, rest) ==
    IF rest = <<>> THEN done
    ELSE sort_from(insert_sorted(done, Head(rest)), Tail(rest))

\* items sorted by keys[i], the key of items[i]
sorted_by(items, keys) ==
    LET pairs == sort_from(<<>>, [i \in 1..Len(items) |-> <<keys[i], items[i]>>])
    IN [i \in 1..Len(pairs) |-> pairs[i][2]]

\* the sort key of a '|'-joined string, given as its pieces: strings compare
\* piece by piece, since no piece of the vocabulary is a prefix of another
str_key(pieces) == [i \in 1..Len(pieces) |-> Rank(pieces[i])]

\* a dict display {k: v, ...}: of the items with the same key the last one stays
dict_display(items) ==
    {items[i] : i \in {n \in 1..Len(items) :
                          \A m \in (n + 1)..Len(items) : items[m][1] # items[n][1]}}

\* CommonTurkicTagMapper.FEAT_MAP: the person, tense, mood and pronoun entries
\* of the display, in the order they are written
CommonTurkicTagMapper_FEAT_MAP ==
    dict_display(
        <<<<"p1", <<"Person=1">>>>, <<"p2", <<"Person=2">>>>, <<"p3", <<"Person=3">>>>,
          <<"past", <<"Tense=Past">>>>, <<"pres", <<"Tense=Pres">>>>,
          <<"fut", <<"Tense=Fut">>>>, <<"aor", <<"Tense=Aor">>>>,
          <<"ind", <<"Mood=Ind">>>>, <<"imp", <<"Mood=Imp">>>>, <<"opt", <<"Mood=Opt">>>>,
          <<"cond", <<"Mood=Cnd">>>>, <<"neces", <<"Mood=Nec">>>>,
          <<"pers", <<"PronType=Prs">>>>, <<"ind", <<"PronType=Ind">>>>>>)

\* TagMapper.map_ud_feats of a mapper with the table self_FEAT_MAP: the mapped
\* values, unknown tags dropped
map_ud_feats(self_FEAT_MAP, apertium_feats) ==
    LET known == SelectSeq(apertium_feats, LAMBDA f : \E e \in self_FEAT_MAP : e[1] = f)
    IN [i \in 1..Len(known) |-> (CHOOSE e \in self_FEAT_MAP : e[1] = known[i])[2]]

\* TagMapper.to_ud_feats of a mapper with the table self_FEAT_MAP:
\* "|".join(sorted(ud_feats)) or "_"
to_ud_feats_with(self_FEAT_MAP, apertium_feats) ==
    LET ud_feats == map_ud_feats(self_FEAT_MAP, apertium_feats)
    IN IF ud_feats = <<>> THEN Underscore
       ELSE Flatten(sorted_by(ud_feats, [i \in 1..Len(ud_feats) |-> str_key(ud_feats[i])]))

\* to_ud_feats of the Kazakh mapper
to_ud_feats(apertium_feats) == to_ud_feats_with(FEAT_MAP, apertium_feats)

\* the values a universal feature can take in the model
UD_VALUES ==
    {"Abl", "Acc", "Dat", "Gen", "Ins", "Loc", "Nom", "Cnd", "Imp", "Ind", "Nec", "Opt", "Card",
     "Plur", "Sing", "1", "2", "3", "Prs", "Aor", "Fut", "Past", "Pres"}

\* f.startswith(p) for a feature piece f and a whitelist prefix p
startswith(f, p) == \E v \in UD_VALUES : f = p \o v

\* allowed_prefixes
allowed_prefixes(upos) ==
    IF upos \in {"VERB", "AUX"} THEN
        {"Aspect=", "Evident=", "Mood=", "Number=", "Person=", "Clusivity=", "Polarity=",
         "Tense=", "VerbForm=", "Voice="}
    ELSE IF upos \in {"NOUN", "PROPN"} THEN
        {"Case=", "Number=", "Gender=", "Number[psor]=", "Person[psor]="}
    ELSE IF upos \in {"PRON", "DET"} THEN
        {"Case=", "Number=", "Person=", "PronType=", "Reflex="}
    ELSE IF upos = "ADJ" THEN {"Case=", "Degree=", "Number=", "Gender="}
    ELSE IF upos = "ADV" THEN {"Degree=", "Polarity=", "AdvType=", "PronType="}
    ELSE IF upos = "NUM" THEN {"Case=", "Number=", "NumType=", "Gender="}
    ELSE IF upos = "PART" THEN {"PartType=", "Polarity="}
    ELSE IF upos = "ADP" THEN {"AdpType=", "Case="}
    ELSE {}

UPOS_WITH_WHITELIST ==
    {"VERB", "AUX", "NOUN", "PROPN", "PRON", "DET", "ADJ", "ADV", "NUM", "PART", "ADP",
     "CCONJ", "SCONJ", "INTJ", "PUNCT", "SYM", "X"}

\* a cleanup that keeps every mapped feature
normalize_keep_all(upos, feats) ==
    IF feats = <<>> \/ feats = Underscore THEN Underscore ELSE feats

normalize_ud_feats_for_upos(upos, feats) ==
    IF feats = <<>> \/ feats = Underscore THEN Underscore
    ELSE IF upos \notin UPOS_WITH_WHITELIST THEN feats
    ELSE LET kept == SelectSeq(feats,
                        LAMBDA f : \E p \in allowed_prefixes(upos) : startswith(f, p))
         IN IF kept = <<>> THEN Underscore
            ELSE sorted_by(kept, [i \in 1..Len(kept) |-> <<Rank(kept[i])>>])

\* ------------------------------------------------------------------------
\* The FST collaborator: analyzer.lookup(surface)
\* ------------------------------------------------------------------------
\* A transducer answers `results` for the surfaces it knows (every surface when
\* `any`), nothing for the others, and raises for the surfaces in `raises`.
\* The outcome is [err |-> the call raised, results |-> <<raw output, weight>>...].
fst_lookup(analyzer, surface) ==
    IF surface \in analyzer.raises THEN [err |-> TRUE, results |-> <<>>]
    ELSE IF analyzer.any \/ surface \in analyzer.expected
         THEN [err |-> FALSE, results |-> analyzer.results]
         ELSE [err |-> FALSE, results |-> <<>>]

\* ------------------------------------------------------------------------
\* Parsing of raw FST output (_analyze)
\* ------------------------------------------------------------------------
Whitespace == {" ", "TAB"}

\* str.strip()
RECURSIVE lstrip(_)
lstrip(t) == IF t # <<>> /\ Head(t) \in Whitespace THEN lstrip(Tail(t)) ELSE t

RECURSIVE rstrip(_)
rstrip(t) ==
    IF t # <<>> /\ t[Len(t)] \in Whitespace THEN rstrip(SubSeq(t, 1, Len(t) - 1)) ELSE t

strip(t) == rstrip(lstrip(t))

\* text.split(c)[-1]
after_last(t, c) == SubSeq(t, LastIndexOf(t, c) + 1, Len(t))

\* re.sub(r"@[^@]+@", "", text)
RECURSIVE strip_markers(_)
strip_markers(t) ==
    IF t = <<>> THEN <<>>
    ELSE IF Head(t) # "@" THEN <<Head(t)>> \o strip_markers(Tail(t))
    ELSE LET j == SelectSeqIdx(t, "@", 2)
         IN IF j = 0 THEN t
            ELSE IF j = 2 THEN <<"@">> \o strip_markers(Tail(t))
            ELSE strip_markers(SubSeq(t, j + 1, Len(t)))

\* re.findall(r"<([^>]+)>", text), each tag as a string
RECURSIVE find_tags(_)
find_tags(t) ==
    IF t = <<>> THEN <<>>
    ELSE IF Head(t) # "<" THEN find_tags(Tail(t))
    ELSE LET j == SelectSeqIdx(t, ">", 2)
         IN IF j = 0 THEN <<>>
            ELSE IF j = 2 THEN find_tags(Tail(t))
            ELSE <<Cat(SubSeq(t, 2, j - 1))>> \o find_tags(SubSeq(t, j + 1, Len(t)))

\* re.match(r"^([^<]+)", text): the text before the first "<" (empty: no match)
lemma_prefix(t) ==
    LET i == IndexOf(t, "<") IN IF i = 0 THEN t ELSE SubSeq(t, 1, i - 1)

clean_output_keeping_markers(output_str) ==
    LET after_tab(c) == IF "TAB" \in Range(c) THEN after_last(c, "TAB") ELSE c
        unwrapped(c) == IF c # <<>> /\ Head(c) = "^" /\ c[Len(c)] = "$"
                        THEN SubSeq(c, 2, Len(c) - 1) ELSE c
        after_slash(c) == IF "/" \in Range(c) THEN after_last(c, "/") ELSE c
    IN after_slash(unwrapped(after_tab(strip(output_str))))

\* the cleaned analysis string of one raw output
clean_output(output_str) ==
    LET after_tab(c) == IF "TAB" \in Range(c) THEN after_last(c, "TAB") ELSE c
        unwrapped(c) == IF c # <<>> /\ Head(c) = "^" /\ c[Len(c)] = "$"
                        THEN SubSeq(c, 2, Len(c) - 1) ELSE c
        after_slash(c) == IF "/" \in Range(c) THEN after_last(c, "/") ELSE c
    IN strip_markers(after_slash(unwrapped(after_tab(strip(output_str)))))

\* the readings parsed from a result list; outputs without lemma or tags are skipped
RECURSIVE parse_results(_)
parse_results(results) ==
    IF results = <<>> THEN <<>>
    ELSE LET reading(output_str, weight, lemma, tags) ==
                 IF strip(output_str) = <<>> \/ lemma = <<>> \/ tags = <<>> THEN <<>>
                 ELSE <<[lemma |-> lemma, pos |-> Head(tags), feats |-> Tail(tags),
                         weight |-> weight, raw |-> output_str]>>
             parsed(output_str, weight, clean) ==
                 reading(output_str, weight, lemma_prefix(clean), find_tags(clean))
         IN parsed(Head(results)[1], Head(results)[2], clean_output(Head(results)[1]))
            \o parse_results(Tail(results))

\* a lookup that lets the FST's error escape
analyze_uncaught(self, surface) ==
    LET r == fst_lookup(self.analyzer, surface)
    IN [err |-> r.err, readings |-> parse_results(r.results)]

\* _analyze: [err |-> an exception left _analyze, readings |-> the readings]
analyze(self, surface) ==
    LET r == fst_lookup(self.analyzer, surface)
    IN IF r.err THEN [err |-> FALSE, readings |-> <<>>]
       ELSE [err |-> FALSE, readings |-> parse_results(r.results)]

\* a loop that hands every variant to the FST and keeps the first non-empty answer
RECURSIVE try_every_variant(_, _, _)
try_every_variant(self, variants, submitted) ==
    IF variants = <<>> THEN [err |-> FALSE, readings |-> <<>>, submitted |-> submitted]
    ELSE LET r == analyze(self, Head(variants))
             rest == try_every_variant(self, Tail(variants), Append(submitted, Head(variants)))
         IN IF r.readings # <<>>
            THEN [err |-> FALSE, readings |-> r.readings, submitted |-> rest.submitted]
            ELSE rest

\* the loop of _analyze_with_fallback over the variants still to try;
\* `submitted` are the surfaces already handed to the FST
RECURSIVE try_variants(_, _, _)
try_variants(self, variants, submitted) ==
    IF variants = <<>> THEN [err |-> FALSE, readings |-> <<>>, submitted |-> submitted]
    ELSE LET r == analyze(self, Head(variants))
             sub == Append(submitted, Head(variants))
         IN IF r.err THEN [err |-> TRUE, readings |-> <<>>, submitted |-> sub]
            ELSE IF r.readings # <<>>
                 THEN [err |-> FALSE, readings |-> r.readings, submitted |-> sub]
                 ELSE try_variants(self, Tail(variants), sub)

analyze_with_fallback(self, surface) == try_variants(self, lookup_variants(surface), <<>>)

\* ------------------------------------------------------------------------
\* Closed-class lexicon and unknown-word fallback
\* ------------------------------------------------------------------------
\* self._lexicon.get(key): the <<upos, feats>> entries of a key, or <<>>
lexicon_get(self, key) ==
    IF \E e \in self.lexicon : e[1] = key
    THEN (CHOOSE e \in self.lexicon : e[1] = key)[2]
    ELSE <<>>

lookup_lexicon_without_bridge(self, text) == lexicon_get(self, lower(text))

\* _lookup_lexicon
lookup_lexicon(self, text) ==
    IF lexicon_get(self, lower(text)) # <<>> THEN lexicon_get(self, lower(text))
    ELSE IF self.needs_translit /\ self.to_fst_translit # "None"
         THEN lexicon_get(self, lower(transliterate(self.to_fst_translit, text)))
         ELSE <<>>

NoFallback == [none |-> TRUE]
Fallback(lemma, upos, feats) ==
    [none |-> FALSE, lemma |-> lemma, upos |-> upos, feats |-> feats]

\* the text before / after the first apostrophe: normalized.split("'", 1)
stem_of(normalized) == SubSeq(normalized, 1, IndexOf(normalized, "'") - 1)
suffix_of(normalized) == SubSeq(normalized, IndexOf(normalized, "'") + 1, Len(normalized))

\* [p for p in hyphenated.split("-") if p]
hyphen_parts(hyphenated) == SelectSeq(Split(hyphenated, "-"), LAMBDA q : q # <<>>)

\* a decision list that asks the capitalisation rule before the reduplication rule
fallback_capital_before_reduplication(self, text, sentence_words, word_index) ==
    LET normalized == normalize_for_lookup(text)
        hyphenated == normalize_hyphens(normalized)
        parts == hyphen_parts(hyphenated)
        lex_entries == lookup_lexicon(self, text)
    IN IF text = <<>> THEN NoFallback
       ELSE IF is_numeric_token(text) THEN Fallback(text, "NUM", <<"NumType=Card">>)
       ELSE IF /\ "'" \in Range(normalized)
               /\ is_cased_script(text)
               /\ first_isupper(text)
               /\ stem_of(normalized) # <<>>
               /\ isalpha(suffix_of(normalized))
               /\ Len(suffix_of(normalized)) <= 4
            THEN Fallback(stem_of(normalized), "PROPN", Underscore)
       ELSE IF /\ is_cased_script(text)
               /\ first_isupper(text)
               /\ ~is_sentence_initial(sentence_words, word_index)
            THEN Fallback(normalize_for_lookup(text), "PROPN", Underscore)
       ELSE IF /\ "-" \in Range(hyphenated)
               /\ Len(parts) = 2
               /\ lexeme_key(parts[1]) = lexeme_key(parts[2])
            THEN Fallback(lower(parts[1]), "ADV", Underscore)
       ELSE IF lex_entries # <<>>
            THEN Fallback(lower(text), lex_entries[1][1], lex_entries[1][2])
       ELSE NoFallback

fallback_for_unknown(self, text, sentence_words, word_index) ==
    LET normalized == normalize_for_lookup(text)
        hyphenated == normalize_hyphens(normalized)
        parts == hyphen_parts(hyphenated)
        lex_entries == lookup_lexicon(self, text)
    IN IF text = <<>> THEN NoFallback
       ELSE IF is_numeric_token(text) THEN Fallback(text, "NUM", <<"NumType=Card">>)
       ELSE IF /\ "'" \in Range(normalized)
               /\ is_cased_script(text)
               /\ first_isupper(text)
               /\ stem_of(normalized) # <<>>
               /\ isalpha(suffix_of(normalized))
               /\ Len(suffix_of(normalized)) <= 4
            THEN Fallback(stem_of(normalized), "PROPN", Underscore)
       ELSE IF /\ "-" \in Range(hyphenated)
               /\ Len(parts) = 2
               /\ lexeme_key(parts[1]) = lexeme_key(parts[2])
            THEN Fallback(lower(parts[1]), "ADV", Underscore)
       ELSE IF /\ is_cased_script(text)
               /\ first_isupper(text)
               /\ ~is_sentence_initial(sentence_words, word_index)
            THEN Fallback(normalize_for_lookup(text), "PROPN", Underscore)
       ELSE IF lex_entries # <<>>
            THEN Fallback(lower(text), lex_entries[1][1], lex_entries[1][2])
       ELSE NoFallback

\* ------------------------------------------------------------------------
\* _disambiguate
\* ------------------------------------------------------------------------
\* pos_priority.get(pos, 99)
pos_priority_noun_first(pos) ==
    IF pos = "n" THEN 0 ELSE IF pos = "v" THEN 1 ELSE IF pos = "vaux" THEN 2
    ELSE IF pos = "np" THEN 3 ELSE IF pos = "adj" THEN 4 ELSE IF pos = "adv" THEN 5
    ELSE IF pos = "prn" THEN 6 ELSE IF pos = "det" THEN 7 ELSE 99

\* the table pos_priority, and 99 for a POS that is not in it
pos_priority(pos) ==
    IF pos = "v" THEN 0 ELSE IF pos = "vaux" THEN 1 ELSE IF pos = "n" THEN 2
    ELSE IF pos = "np" THEN 3 ELSE IF pos = "adj" THEN 4 ELSE IF pos = "adv" THEN 5
    ELSE IF pos = "prn" THEN 6 ELSE IF pos = "det" THEN 7 ELSE 99

\* sentence_words is a sequence of words and word_index counts from 1;
\* word_index = 0 stands for 'no sentence context' (None)
RECURSIVE next_lexical_is_particle(_, _)
next_lexical_is_particle(sentence_words, j) ==
    IF j > Len(sentence_words) THEN FALSE
    ELSE IF is_punctuation_token(sentence_words[j].text)
         THEN next_lexical_is_particle(sentence_words, j + 1)
         ELSE is_question_particle(sentence_words[j].text)

next_word_is_question_particle(sentence_words, word_index) ==
    /\ word_index # 0
    /\ word_index < Len(sentence_words)
    /\ is_question_particle(sentence_words[word_index + 1].text)

next_is_question_particle(sentence_words, word_index) ==
    IF word_index = 0 THEN FALSE
    ELSE next_lexical_is_particle(sentence_words, word_index + 1)

is_final_lexical_position(sentence_words, word_index) ==
    IF word_index = 0 THEN FALSE
    ELSE LET lexical == {j \in 1..Len(sentence_words) :
                            ~is_punctuation_token(sentence_words[j].text)}
         IN lexical # {} /\ word_index = CHOOSE j \in lexical : \A k \in lexical : k <= j

verbal_tags ==
    {"past", "pres", "fut", "aor", "ifi", "ind", "imp", "opt", "cond", "neces", "prog",
     "pass", "rcp", "inf", "ger", "part", "cvb"}
case_tags == {"nom", "gen", "dat", "acc", "abl", "loc", "ins", "equ"}
tense_tags == {"past", "pres", "fut", "aor", "ifi"}
finite_tags == {"past", "pres", "fut", "aor", "ifi", "ind", "imp", "opt", "cond", "neces"}

B2I(b) == IF b THEN 1 ELSE 0

\* a score without the sentence-position terms
context_score_no_position(self, reading, sentence_words, word_index, surface_text) ==
    LET pos == reading.pos
        feats == Range(reading.feats)
        lex_entries == IF surface_text # NoneText /\ self.lexicon # {}
                       THEN lookup_lexicon(self, surface_text) ELSE <<>>
    IN - 3 * B2I(pos \in {"n", "np", "adj", "adv", "prn", "det", "num"}
                 /\ feats \cap verbal_tags # {})
       - B2I(pos \in {"v", "vaux"} /\ feats \cap case_tags # {} /\ "part" \notin feats)
       + (IF surface_text # NoneText /\ first_isupper(surface_text)
          THEN B2I(pos = "np") - 2 * B2I(pos \in {"v", "vaux"} /\ "imp" \in feats)
          ELSE 0)
       + 2 * B2I(/\ lex_entries # <<>>
                 /\ \E i \in 1..Len(lex_entries) : lex_entries[i][1] = to_ud_pos(pos))

\* a score whose capitalisation term is left out for the first word of a sentence
context_score_capital_mid_sentence(self, reading, sentence_words, word_index, surface_text) ==
    context_score_no_position(self, reading, sentence_words, word_index,
                              IF is_sentence_initial(sentence_words, word_index)
                              THEN lower(surface_text) ELSE surface_text)
    + (IF is_final_lexical_position(sentence_words, word_index)
       THEN 3 * B2I(reading.pos \in {"v", "vaux"}) - 2 * B2I(reading.pos \in {"n", "np"})
            + B2I(Range(reading.feats) \cap tense_tags # {})
       ELSE - 2 * B2I(/\ reading.pos \in {"v", "vaux"}
                      /\ Range(reading.feats) \cap finite_tags # {}
                      /\ ~next_is_question_particle(sentence_words, word_index)))

context_score(self, reading, sentence_words, word_index, surface_text) ==
    LET pos == reading.pos
        feats == Range(reading.feats)
        final_lexical == is_final_lexical_position(sentence_words, word_index)
        lex_entries == IF surface_text # NoneText /\ self.lexicon # {}
                       THEN lookup_lexicon(self, surface_text) ELSE <<>>
        positional ==
            IF final_lexical
            THEN 3 * B2I(pos \in {"v", "vaux"}) - 2 * B2I(pos \in {"n", "np"})
                 + B2I(feats \cap tense_tags # {})
            ELSE - 2 * B2I(/\ pos \in {"v", "vaux"}
                           /\ feats \cap finite_tags # {}
                           /\ ~next_is_question_particle(sentence_words, word_index))
        artifact ==
            - 3 * B2I(pos \in {"n", "np", "adj", "adv", "prn", "det", "num"}
                      /\ feats \cap verbal_tags # {})
            - B2I(pos \in {"v", "vaux"} /\ feats \cap case_tags # {} /\ "part" \notin feats)
        capital ==
            IF surface_text # NoneText /\ first_isupper(surface_text)
            THEN B2I(pos = "np") - 2 * B2I(pos \in {"v", "vaux"} /\ "imp" \in feats)
            ELSE 0
        boost ==
            2 * B2I(/\ lex_entries # <<>>
                    /\ \E i \in 1..Len(lex_entries) : lex_entries[i][1] = to_ud_pos(pos))
    IN positional + artifact + capital + boost

\* a sort key that leaves the FST weight out
sort_key_no_weight(self, r, sentence_words, word_index, surface_text) ==
    <<- context_score(self, r, sentence_words, word_index, surface_text),
      pos_priority(r.pos),
      Len(r.feats)>>

\* a sort key that prefers the heavier reading
sort_key_heaviest_first(self, r, sentence_words, word_index, surface_text) ==
    <<- r.weight,
      - context_score(self, r, sentence_words, word_index, surface_text),
      pos_priority(r.pos),
      Len(r.feats)>>

\* the key of readings.sort
sort_key(self, r, sentence_words, word_index, surface_text) ==
    <<r.weight,
      - context_score(self, r, sentence_words, word_index, surface_text),
      pos_priority(r.pos),
      Len(r.feats)>>

\* the list `readings` as _disambiguate leaves it (sorted in place when it has
\* two or more elements)
sorted_readings(self, readings, sentence_words, word_index, surface_text) ==
    IF Len(readings) < 2 THEN readings
    ELSE sorted_by(readings,
                   [i \in 1..Len(readings) |->
                       sort_key(self, readings[i], sentence_words, word_index, surface_text)])

\* the reading _disambiguate returns
disambiguate(self, readings, sentence_words, word_index, surface_text) ==
    IF readings = <<>> THEN [lemma |-> <<>>, pos |-> "x", feats |-> <<>>]
    ELSE sorted_readings(self, readings, sentence_words, word_index, surface_text)[1]

\* ------------------------------------------------------------------------
\* Bounds and the inputs the model draws from
\* ------------------------------------------------------------------------
MaxWords == 2          \* words in a document
MaxReadings == 2       \* candidate readings handed to _disambiguate

Tag(name) == <<"<">> \o name \o <<">">>

\* surface forms
T_dot == <<".">>
T_num == <<"1", ".", "5">>
T_Ala == <<"A", "l", "a">>
T_AlaQ == <<"A", "l", "a", "RSQ">>
T_Apos == <<"A", "l", "RSQ", "n">>
T_Redup == <<"A", "b", "NDASH", "a", "b">>
T_el == <<"e", "l">>
T_ma == <<"m", "a">>

Word(text, lemma, upos, feats) ==
    [text |-> text, lemma |-> lemma, upos |-> upos, feats |-> feats]

\* a word as it stands in a document: misc is one of the fields of Word that
\* process() does not name (xpos, head, deprel, deps, misc, ner, ...)
Token(word, misc) ==
    [text |-> word.text, lemma |-> word.lemma, upos |-> word.upos,
     feats |-> word.feats, misc |-> misc]

assign_and_reset(word, w) == Token(w, NoneTag)

\* word.lemma = ...; word.upos = ...; word.feats = ...
assign(word, w) == [word EXCEPT !.lemma = w.lemma, !.upos = w.upos, !.feats = w.feats]

\* words as the tokenizer or an earlier annotation leaves them
WordPool ==
    {Token(Word(t, NoneText, NoneTag, NoneFeats), NoneTag) :
        t \in {T_dot, T_num, T_AlaQ, T_Apos, T_Redup, T_el}}
    \cup {Token(Word(T_ma, NoneText, NoneTag, NoneFeats), "SpaceAfter=No"),
          Token(Word(T_el, NoneText, "NOUN", <<"Case=Nom">>), "SpaceAfter=No"),
          Token(Word(T_el, NoneText, "PUNCT", NoneFeats), NoneTag)}

\* raw FST results: <<output string, weight>>
R_w ==
    <<<<<<"w">> \o Tag(<<"n">>) \o Tag(<<"d", "a", "t">>) \o Tag(<<"s", "g">>), 5>>,
      <<<<"w">> \o Tag(<<"n">>) \o Tag(<<"n", "o", "m">>) \o Tag(<<"s", "g">>), 10>>>>
R_np ==
    <<<<<<"cA", "cl", "ca">> \o Tag(<<"n", "p">>) \o Tag(<<"n", "o", "m">>)
          \o Tag(<<"p", "3">>) \o Tag(<<"a", "o", "r">>), 0>>>>
R_amb ==
    <<<<<<"e", "l">> \o Tag(<<"n">>) \o Tag(<<"n", "o", "m">>), 0>>,
      <<<<"e", "l">> \o Tag(<<"v">>) \o Tag(<<"p", "a", "s", "t">>) \o Tag(<<"p", "3">>), 0>>,
      <<<<"e", "l">>, 0>>>>
R_adv ==
    <<<<<<"e", "l">> \o Tag(<<"a", "d", "v">>) \o Tag(<<"p", "a", "s", "t">>), 0>>>>

Analyzer(any, expected, results, raises) ==
    [any |-> any, expected |-> expected, results |-> results, raises |-> raises]

\* the analyzers of AnalyzerPool, named
NoAnalyses == Analyzer(FALSE, {}, <<>>, {})
AlwaysW == Analyzer(TRUE, {}, R_w, {})
AlwaysAmbiguous == Analyzer(TRUE, {}, R_amb, {})
RaisesOnCapital == Analyzer(FALSE, {<<"a", "l", "a">>, <<"e", "l">>}, R_amb, {T_Ala})
RaisesOnBothCases == Analyzer(FALSE, {T_el}, R_adv, {T_Ala, <<"a", "l", "a">>})
CyrillicName == Analyzer(FALSE, {<<"cA", "cl", "ca">>, <<"A", "l", "'", "n">>}, R_np, {})

AnalyzerPool ==
    {NoAnalyses,
     AlwaysW,
     AlwaysAmbiguous,
     RaisesOnCapital,
     RaisesOnBothCases,
     CyrillicName}

\* lexicons: <<lower-cased form, <<upos, feats>> entries>>
Lexicon1 ==
    {<<<<"e", "l">>, <<<<"ADP", Underscore>>>>>>,
     <<<<"cm", "ca">>, <<<<"PART", Underscore>>>>>>}

\* load(): script bridging is needed when both scripts are known and differ
needs_translit(script, fst_script) ==
    script # "None" /\ fst_script # "None" /\ script # fst_script

\* a Kazakh processor (the FST expects Cyrillic) after __init__ and, when loaded,
\* after load(); script is the script the caller declared, "None" for none
Processor(loaded, script, lexicon, analyzer) ==
    LET fst_script == "Cyrl"
        bridged == loaded /\ needs_translit(script, fst_script)
    IN [loaded |-> loaded,
        script |-> script,
        apertium_script |-> fst_script,
        needs_translit |-> needs_translit(script, fst_script),
        to_fst_translit |-> IF bridged THEN "kaz_Latn_to_Cyrl" ELSE "None",
        from_fst_translit |-> IF bridged THEN "kaz_Cyrl_to_Latn" ELSE "None",
        lexicon |-> lexicon,
        analyzer |-> analyzer,
        tagger_cmd |-> "None",
        tagger_args |-> <<>>,
        subprocess |-> "None"]

\* a processor configured with an external tagger command
WithTagger(self, args, process) ==
    [self EXCEPT !.tagger_cmd = "apertium-tagger", !.tagger_args = args,
                 !.subprocess = process]

\* processors: every analyzer without bridging and without lexicon, and some
\* with a lexicon or with script bridging (Latin text, Cyrillic FST)
ProcessorPool ==
    {Processor(TRUE, "Cyrl", {}, an) : an \in AnalyzerPool}
    \cup {Processor(TRUE, "None", Lexicon1, an) : an \in {NoAnalyses, AlwaysAmbiguous}}
    \cup {Processor(TRUE, "Latn", Lexicon1, an) : an \in {NoAnalyses, AlwaysW, CyrillicName}}
    \cup {Processor(FALSE, "Cyrl", {}, NoAnalyses)}

WordLists == UNION {[1..n -> WordPool] : n \in 1..MaxWords}

\* a document: a word list cut into one or two sentences
Docs ==
    {<<ws>> : ws \in WordLists}
    \cup {<<SubSeq(ws, 1, c), SubSeq(ws, c + 1, Len(ws))>> :
             <<ws, c>> \in {x \in WordLists \X (1..MaxWords) : x[2] < Len(x[1])}}

NoHarness == [results |-> <<>>]
NoCall == [fn |-> "None"]

\* ------------------------------------------------------------------------
\* The optional external tagger
\* ------------------------------------------------------------------------
NoTagged == [err |-> FALSE, none |-> TRUE]

\* sep.join(parts)
RECURSIVE join(_, _)
join(sep, parts) ==
    IF parts = <<>> THEN <<>>
    ELSE IF Len(parts) = 1 THEN parts[1]
    ELSE parts[1] \o sep \o join(sep, Tail(parts))

\* _build_apertium_stream: one unit per word, joined by blanks.  A tag name is
\* one element of the text, between its "<" and ">".
build_apertium_stream(sentence_words, readings_by_word) ==
    LET analysis_to_stream(r) ==
            r.lemma \o Flatten([i \in 1..(Len(r.feats) + 1) |->
                                  <<"<", (<<r.pos>> \o r.feats)[i], ">">>])
        unit(i) ==
            LET surface == sentence_words[i].text
                readings == readings_by_word[i].readings
            IN IF readings_by_word[i].punct
               THEN <<"^">> \o surface \o <<"/">> \o surface \o <<"<", "punct", ">", "$">>
               ELSE IF readings = <<>>
               THEN <<"^">> \o surface \o <<"/", "*">> \o surface \o <<"$">>
               ELSE <<"^">> \o surface \o <<"/">>
                    \o join(<<"/">>, [k \in 1..Len(readings) |-> analysis_to_stream(readings[k])])
                    \o <<"$">>
    IN join(<<" ">>, [i \in 1..Len(readings_by_word) |-> unit(i)])

\* the tagger process, which is not part of the program: it does not start,
\* or it exits with a return code after writing, for every unit it read, a
\* unit with one analysis (the first, the last, or one that was not offered),
\* or one unit fewer than it read
subprocess_run(process, stream) ==
    LET units == Split(stream, " ")
        answer(u) ==
            LET parts == Split(SubSeq(u, 2, Len(u) - 1), "/")
            IN <<"^">> \o parts[1] \o <<"/">>
               \o (IF process.answer = "first" THEN parts[2]
                   ELSE IF process.answer = "other" THEN <<"z", "<", "x", ">">>
                   ELSE parts[Len(parts)])
               \o <<"$">>
        kept == IF process.answer = "short" THEN Len(units) - 1 ELSE Len(units)
    IN [raised |-> ~process.starts,
        returncode |-> process.returncode,
        stdout |-> join(<<" ">>, [i \in 1..kept |-> answer(units[i])])]

run_apertium_tagger_check_true(self, stream) ==
    LET result == subprocess_run(self.subprocess, stream)
    IN IF result.raised THEN [err |-> FALSE, none |-> TRUE]
       ELSE IF result.returncode # 0 THEN [err |-> TRUE, none |-> TRUE]
       ELSE [err |-> FALSE, none |-> FALSE, stdout |-> result.stdout]

\* _run_apertium_tagger: None when the process cannot be started or exits
\* with a return code other than 0, its standard output otherwise
run_apertium_tagger(self, stream) ==
    LET result == subprocess_run(self.subprocess, stream)
    IN IF result.raised THEN [err |-> FALSE, none |-> TRUE]
       ELSE IF result.returncode # 0 THEN [err |-> FALSE, none |-> TRUE]
       ELSE [err |-> FALSE, none |-> FALSE, stdout |-> result.stdout]

\* re.findall(r"\\^([^$]+)\\$", output).  In the raw string the two
\* backslashes are a literal backslash, so the pattern is: a backslash, the
\* start of the string, one or more characters other than "$", a backslash,
\* the end of the string.  A match that begins at i has its backslash at i and
\* needs the start of the string at i + 1.
findall_units(output) ==
    LET ends(i) == {j \in (i + 2)..Len(output) :
                       /\ \A k \in (i + 1)..(j - 1) : output[k] # "$"
                       /\ output[j] = "\\"
                       /\ j = Len(output)}
        starts == {i \in 1..Len(output) :
                       /\ output[i] = "\\"
                       /\ i + 1 = 1
                       /\ ends(i) # {}}
    IN IF starts = {} THEN <<>>
       ELSE LET i == CHOOSE x \in starts : TRUE
                j == CHOOSE x \in ends(i) : TRUE
            IN <<SubSeq(output, i + 1, j - 1)>>

\* the reading of `readings` that a unit's analysis names (_parse_stream_analysis,
\* _match_reading), or none
select_reading(unit, readings) ==
    LET parts == Split(unit, "/")
        analysis == parts[2]
        lemma == lemma_prefix(analysis)
        tags == find_tags(analysis)
        matches == {k \in 1..Len(readings) :
                       /\ readings[k].lemma = lemma
                       /\ readings[k].pos = Head(tags)
                       /\ readings[k].feats = Tail(tags)}
    IN IF Len(parts) < 2 THEN [none |-> TRUE]
       ELSE IF lemma = <<>> \/ tags = <<>> THEN [none |-> TRUE]
       ELSE IF matches = {} THEN [none |-> TRUE]
       ELSE [none |-> FALSE,
             reading |-> readings[CHOOSE k \in matches : \A m \in matches : k <= m]]

\* _parse_tagger_output
parse_tagger_output(output, readings_by_word) ==
    LET units == findall_units(output)
    IN IF units = <<>> \/ Len(units) # Len(readings_by_word) THEN NoTagged
       ELSE [err |-> FALSE, none |-> FALSE,
             selected |-> [i \in 1..Len(units) |->
                             IF readings_by_word[i].punct THEN [none |-> TRUE]
                             ELSE select_reading(units[i], readings_by_word[i].readings)]]

\* _tagger_disambiguate
tagger_disambiguate(self, sentence_words, readings_by_word) ==
    IF self.tagger_cmd = "None" \/ self.tagger_args = <<>> THEN NoTagged
    ELSE IF \A i \in 1..Len(readings_by_word) :
               readings_by_word[i].punct \/ readings_by_word[i].readings = <<>>
    THEN NoTagged
    ELSE LET result == run_apertium_tagger(self,
                           build_apertium_stream(sentence_words, readings_by_word))
         IN IF result.err THEN [err |-> TRUE, none |-> TRUE]
            ELSE IF result.none THEN NoTagged
            ELSE parse_tagger_output(result.stdout, readings_by_word)

\* ------------------------------------------------------------------------
\* process(doc)
\* ------------------------------------------------------------------------
Entry(punct, readings) == [punct |-> punct, readings |-> readings]

\* what _analyze_with_fallback did for a word: the surfaces it handed to the
\* FST, in order, and the readings it returned
Lookup(submitted, readings) == [submitted |-> submitted, readings |-> readings]
NoLookup == Lookup(<<>>, <<>>)

fst_surface_unbridged(self, text) == text

\* the surface handed to the FST for a word
fst_surface(self, text) ==
    IF self.needs_translit /\ self.to_fst_translit # "None"
    THEN transliterate(self.to_fst_translit, text)
    ELSE text

\* the lemma written for a chosen reading
out_lemma(self, lemma) ==
    IF self.needs_translit /\ self.from_fst_translit # "None"
    THEN transliterate(self.from_fst_translit, lemma)
    ELSE lemma

\* a last-resort branch that writes the lemma only
last_resort_lemma_only(word) == Word(word.text, word.text, word.upos, word.feats)

\* the word after the last-resort branch (no analysis, no fallback)
last_resort(word) ==
    Word(word.text, word.text,
         IF word.upos = NoneTag THEN "X" ELSE word.upos,
         IF word.feats = NoneFeats THEN Underscore ELSE word.feats)

\* the word after the analysed branch, written from the reading `best`
analysed(self, word, best) ==
    LET upos == to_ud_pos(best.pos)
    IN Word(word.text, out_lemma(self, best.lemma), upos,
            normalize_ud_feats_for_upos(upos, to_ud_feats(best.feats)))

fast_path_by_text_only(word) == is_punctuation_token(word.text)

\* the condition of the punctuation fast path
fast_path(word) == word.upos = "PUNCT" \/ is_punctuation_token(word.text)

\* the states a word passes in the first loop, in the order of the statements:
\* the surface is transliterated, _analyze_with_fallback normalises what it got
\* into variants, looks them up and parses the output of the first that answers
lookup_states(self, readings) ==
    (IF self.needs_translit /\ self.to_fst_translit # "None" THEN <<"translated">> ELSE <<>>)
    \o <<"normalized", "looked-up">>
    \o (IF readings # <<>> THEN <<"parsed">> ELSE <<>>)

choice_states_stuck_in_fallback(readings) ==
    IF readings = <<>> THEN <<"unknown-fallback">>
    ELSE <<"disambiguated", "mapped", "done">>

\* the states a word passes in the second loop
choice_states(readings) ==
    IF readings = <<>> THEN <<"unknown-fallback", "done">>
    ELSE <<"disambiguated", "mapped", "done">>

\* process() begins: check_requirements, then the loaded check
Start ==
    /\ pc = "idle"
    /\ IF doc = <<>> \/ ~cfg.loaded
       THEN pc' = "raised" /\ UNCHANGED <<si, wi>>
       ELSE pc' = "pass1" /\ si' = 1 /\ wi' = 1
    /\ rbw' = <<>>
    /\ UNCHANGED <<cfg, doc, doc0, tagged, lookups, path, stage, log, dz, call>>

\* first loop of a sentence, one word: the punctuation fast path or the lookup
Pass1 ==
    /\ pc = "pass1"
    /\ LET word == doc[si][wi]
           r == analyze_with_fallback(cfg, fst_surface(cfg, word.text))
           readings_by_word == IF wi = 1 THEN <<>> ELSE rbw
       IN IF fast_path(word)
          THEN /\ doc' = [doc EXCEPT ![si][wi] =
                            assign(word, Word(word.text, word.text, "PUNCT", Underscore))]
               /\ rbw' = Append(readings_by_word, Entry(TRUE, <<>>))
               /\ path' = [path EXCEPT ![si][wi] = "punct"]
               /\ stage' = [stage EXCEPT ![si][wi] = @ \o <<"done">>]
               /\ pc' = IF wi < Len(doc[si]) THEN "pass1" ELSE "tagger"
               /\ wi' = IF wi < Len(doc[si]) THEN wi + 1 ELSE wi
               /\ UNCHANGED lookups
          ELSE /\ lookups' = [lookups EXCEPT ![si][wi] = Lookup(r.submitted, r.readings)]
               /\ rbw' = IF r.err THEN rbw
                        ELSE Append(readings_by_word, Entry(FALSE, r.readings))
               /\ pc' = IF r.err THEN "raised"
                        ELSE IF wi < Len(doc[si]) THEN "pass1" ELSE "tagger"
               /\ wi' = IF ~r.err /\ wi < Len(doc[si]) THEN wi + 1 ELSE wi
               /\ stage' = [stage EXCEPT ![si][wi] = @ \o lookup_states(cfg, r.readings)]
               /\ UNCHANGED <<doc, path>>
    /\ UNCHANGED <<cfg, doc0, si, tagged, log, dz, call>>

\* between the loops: the external tagger
Tagger ==
    /\ pc = "tagger"
    /\ tagged' = tagger_disambiguate(cfg, doc[si], rbw)
    /\ pc' = IF tagged'.err THEN "raised" ELSE "pass2"
    /\ wi' = 1
    /\ UNCHANGED <<cfg, doc, doc0, si, rbw, lookups, path, stage, log, dz, call>>

\* second loop of a sentence, one word: skip, fall back, or choose and map
Pass2 ==
    /\ pc = "pass2"
    /\ LET word == doc[si][wi]
           readings == rbw[wi].readings
           fallback == fallback_for_unknown(cfg, word.text, doc[si], wi)
           use_tagger == ~tagged.none /\ ~tagged.selected[wi].none
           best == IF use_tagger THEN tagged.selected[wi].reading
                   ELSE disambiguate(cfg, readings, doc[si], wi, word.text)
       IN IF rbw[wi].punct
          THEN UNCHANGED <<doc, rbw, path, stage>>
          ELSE IF readings = <<>>
          THEN /\ doc' = [doc EXCEPT ![si][wi] =
                            assign(word,
                                   IF fallback.none THEN last_resort(word)
                                   ELSE Word(word.text, fallback.lemma, fallback.upos,
                                             fallback.feats))]
               /\ path' = [path EXCEPT ![si][wi] =
                            IF fallback.none THEN "last_resort" ELSE "fallback"]
               /\ stage' = [stage EXCEPT ![si][wi] = @ \o choice_states(readings)]
               /\ UNCHANGED rbw
          ELSE /\ doc' = [doc EXCEPT ![si][wi] = assign(word, analysed(cfg, word, best))]
               /\ rbw' = IF use_tagger THEN rbw
                         ELSE [rbw EXCEPT ![wi].readings =
                                 sorted_readings(cfg, readings, doc[si], wi, word.text)]
               /\ path' = [path EXCEPT ![si][wi] = "analysed"]
               /\ stage' = [stage EXCEPT ![si][wi] = @ \o choice_states(readings)]
    /\ IF wi < Len(doc[si])
       THEN wi' = wi + 1 /\ UNCHANGED <<pc, si>>
       ELSE IF si < Len(doc)
            THEN wi' = 1 /\ si' = si + 1 /\ pc' = "pass1"
            ELSE pc' = "log" /\ UNCHANGED <<si, wi>>
    /\ UNCHANGED <<cfg, doc0, tagged, lookups, log, dz, call>>

\* the processor log entry, and return
Log ==
    /\ pc = "log"
    /\ log' = Append(log, IF cfg.needs_translit THEN "morph:translit" ELSE "morph")
    /\ pc' = "done"
    /\ UNCHANGED <<cfg, doc, doc0, si, wi, rbw, tagged, lookups, path, stage, dz, call>>

Init ==
    /\ cfg \in ProcessorPool
    /\ doc \in Docs \cup {<<>>}
    /\ doc0 = doc
    /\ pc = "idle"
    /\ si = 0
    /\ wi = 0
    /\ rbw = <<>>
    /\ tagged = NoTagged
    /\ lookups = [s \in 1..Len(doc) |-> [w \in 1..Len(doc[s]) |-> NoLookup]]
    /\ path = [s \in 1..Len(doc) |-> [w \in 1..Len(doc[s]) |-> "pending"]]
    /\ stage = [s \in 1..Len(doc) |-> [w \in 1..Len(doc[s]) |-> <<"pending">>]]
    /\ log = <<>>
    /\ dz = NoHarness
    /\ call = NoCall

Next == Start \/ Pass1 \/ Tagger \/ Pass2 \/ Log

Spec == Init /\ [][Next]_vars

\* ------------------------------------------------------------------------
\* A harness for _disambiguate: two calls on the same list object
\* ------------------------------------------------------------------------
Reading(lemma, pos, feats, weight) ==
    [lemma |-> lemma, pos |-> pos, feats |-> feats, weight |-> weight, raw |-> lemma]

ReadingPool ==
    {Reading(T_el, "n", <<"nom">>, 0),
     Reading(T_el, "n", <<"acc">>, 0),
     Reading(T_el, "n", <<"past">>, 0),
     Reading(T_el, "n", <<"sg">>, 5),
     Reading(T_el, "v", <<"past", "p3">>, 0),
     Reading(T_el, "v", <<"imp", "dat", "aor">>, 0),
     Reading(T_el, "v", <<"aor">>, 5),
     Reading(T_Ala, "np", <<"nom">>, 0),
     Reading(T_el, "adj", <<>>, 10),
     Reading(T_el, "n", <<"nom", "sg">>, 0),
     Reading(T_el, "post", <<>>, 0)}

ReadingLists == UNION {[1..n -> ReadingPool] : n \in 1..MaxReadings}

Plain(t) == Word(t, NoneText, NoneTag, NoneFeats)

\* <<sentence_words, word_index, surface_text>>; <<<<>>, 0, s>> is a call without
\* sentence context
Contexts ==
    UNION {{<<<<>>, 0, NoneText>>,
            <<<<>>, 0, s>>,
            <<<<Plain(s)>>, 1, s>>,
            <<<<Plain(s), Plain(T_dot)>>, 1, s>>,
            <<<<Plain(s), Plain(T_el)>>, 1, s>>,
            <<<<Plain(T_el), Plain(s)>>, 2, s>>,
            <<<<Plain(s), Plain(T_dot), Plain(T_ma)>>, 1, s>>,
            <<<<Plain(T_el), Plain(s), Plain(T_el)>>, 2, s>>} : s \in {T_el, T_Ala}}

LexiconVerb == {<<T_el, <<<<"VERB", Underscore>>>>>>}
LexiconNoun == {<<T_el, <<<<"NOUN", Underscore>>>>>>, <<<<"a", "l", "a">>, <<<<"PROPN", Underscore>>>>>>}

HarnessProcessors ==
    {Processor(TRUE, "Cyrl", lx, NoAnalyses) :
        lx \in {{}, LexiconVerb, LexiconNoun}}

\* one call of _disambiguate on the list object dz.readings
Call ==
    /\ pc = "harness"
    /\ Len(dz.results) < 2
    /\ dz' = [dz EXCEPT
                !.results = Append(@, disambiguate(cfg, dz.readings, dz.sentence_words,
                                                   dz.word_index, dz.surface_text)),
                !.readings = sorted_readings(cfg, dz.readings, dz.sentence_words,
                                             dz.word_index, dz.surface_text)]
    /\ UNCHANGED <<cfg, doc, doc0, pc, si, wi, rbw, tagged, lookups, path, stage, log, call>>

InitDisambiguate ==
    /\ cfg \in HarnessProcessors
    /\ \E rs \in ReadingLists, c \in Contexts :
          dz = [readings0 |-> rs, readings |-> rs, sentence_words |-> c[1],
                word_index |-> c[2], surface_text |-> c[3], results |-> <<>>]
    /\ doc = <<>>
    /\ doc0 = <<>>
    /\ pc = "harness"
    /\ si = 0
    /\ wi = 0
    /\ rbw = <<>>
    /\ tagged = NoTagged
    /\ lookups = <<>>
    /\ path = <<>>
    /\ stage = <<>>
    /\ log = <<>>
    /\ call = NoCall

NextDisambiguate == Call

SpecDisambiguate == InitDisambiguate /\ [][NextDisambiguate]_vars

\* ------------------------------------------------------------------------
\* Calls of one function on its own
\* ------------------------------------------------------------------------
\* process() is not running during such a call
NoProcess ==
    /\ cfg = Processor(TRUE, "Cyrl", {}, NoAnalyses)
    /\ doc = <<>>
    /\ doc0 = <<>>
    /\ si = 0
    /\ wi = 0
    /\ rbw = <<>>
    /\ tagged = NoTagged
    /\ lookups = <<>>
    /\ path = <<>>
    /\ stage = <<>>
    /\ log = <<>>
    /\ dz = NoHarness

process_vars == <<cfg, doc, doc0, pc, si, wi, rbw, tagged, lookups, path, stage, log, dz>>

\* strings of at most n characters over an alphabet
Strings(alphabet, n) == UNION {[1..k -> alphabet] : k \in 0..n}

\* --- _lookup_variants(text) ---
MaxSurfaceLen == 2
SurfaceAlphabet == {"A", "a", "E^", "e^", "RSQ", "NDASH", "ZWNJ"}

Variants ==
    /\ pc = "call"
    /\ call.fn = "_lookup_variants"
    /\ ~call.returned
    /\ call' = [call EXCEPT !.returned = TRUE, !.out = lookup_variants(call.text)]
    /\ UNCHANGED process_vars

InitVariants ==
    \E s \in Strings(SurfaceAlphabet, MaxSurfaceLen) :
        call = [fn |-> "_lookup_variants", text |-> s, returned |-> FALSE, out |-> <<>>]


\* --- Transliterator(lang, source, target) ---
\* f"{lang}_{source.value}_to_{target.value}", as its pieces
table_key(lang, source, target) == <<lang, source, "to", target>>

\* the keys of TRANSLITERATION_TABLES
TABLE_KEYS ==
    {<<"kaz", "Cyrl", "to", "Latn">>, <<"kaz", "Latn", "to", "Cyrl">>,
     <<"uzb", "Cyrl", "to", "Latn">>, <<"uig", "Arab", "to", "Latn">>,
     <<"tuk", "Cyrl", "to", "Latn">>, <<"tuk", "Latn", "to", "Cyrl">>,
     <<"crh", "Cyrl", "to", "Latn">>, <<"crh", "Latn", "to", "Cyrl">>,
     <<"uzb", "Latn", "to", "Cyrl">>, <<"uig", "Latn", "to", "Arab">>,
     <<"aze", "Cyrl", "to", "Latn">>, <<"aze", "Latn", "to", "Cyrl">>,
     <<"tat", "Cyrl", "to", "Latn">>, <<"tat", "Latn", "to", "Cyrl">>,
     <<"kaa", "Cyrl", "to", "Latn">>, <<"kaa", "Latn", "to", "Cyrl">>,
     <<"ota", "Latn", "to", "Arab">>, <<"otk", "Orkh", "to", "Latn">>}

load_mapping_or_empty(lang, source, target) ==
    [raised |-> "None", forward |-> table_key(lang, source, target)]

\* the outcome of _load_mapping: it raised, or the key of the table it returned
load_mapping(lang, source, target) ==
    LET key == table_key(lang, source, target)
    IN IF key \notin TABLE_KEYS
       THEN [raised |-> "ValueError", forward |-> <<>>]
       ELSE [raised |-> "None", forward |-> key]

\* __init__: the object, or the error that left no object
Transliterator(lang, source, target) ==
    LET loaded == load_mapping(lang, source, target)
    IN IF loaded.raised # "None"
       THEN [raised |-> loaded.raised]
       ELSE [raised |-> "None", lang |-> lang, source |-> source, target |-> target,
             forward_map |-> loaded.forward]

Construct ==
    /\ pc = "call"
    /\ call.fn = "Transliterator"
    /\ ~call.returned
    /\ call' = [call EXCEPT !.returned = TRUE,
                            !.out = Transliterator(call.lang, call.source, call.target)]
    /\ UNCHANGED process_vars

InitConstruct ==
    LET Script == {"Latn", "Cyrl", "Arab", "Orkh"}
        Languages == {k[1] : k \in TABLE_KEYS} \cup {"kir", "tur"}
    IN \E l \in Languages, s \in Script, t \in Script :
          call = [fn |-> "Transliterator", lang |-> l, source |-> s, target |-> t,
                  returned |-> FALSE, out |-> <<>>]


\* --- Transliterator.transliterate, there and back ---
MaxTextLen == 3

\* <<table of the first call, table of the second call, the characters of the text>>
RoundTrips ==
    {<<"tuk_Cyrl_to_Latn", "tuk_Latn_to_Cyrl",
       {"ce", "cE", "cl", "ci", "cj", "ca", "cee", "chs", "css", "-"}>>,
     <<"tuk_Latn_to_Cyrl", "tuk_Cyrl_to_Latn", {"e", "E", "l", "i", "y^", "a", "-"}>>,
     <<"kaz_Cyrl_to_Latn", "kaz_Latn_to_Cyrl", {"ca", "cA", "cb", "ce", "cee", "css"}>>,
     <<"kaz_Latn_to_Cyrl", "kaz_Cyrl_to_Latn", {"a", "A", "b", "e", "W"}>>}

\* one call of transliterate: the first on the text, the second on its result
Transliterate ==
    /\ pc = "call"
    /\ call.fn = "transliterate"
    /\ ~call.returned
    /\ call' = IF call.mid = NoneText
               THEN [call EXCEPT !.mid = transliterate(call.there, call.text)]
               ELSE [call EXCEPT !.returned = TRUE,
                                 !.out = transliterate(call.back, call.mid)]
    /\ UNCHANGED process_vars

InitTransliterate ==
    \E r \in RoundTrips : \E t \in Strings(r[3], MaxTextLen) :
        call = [fn |-> "transliterate", there |-> r[1], back |-> r[2], text |-> t,
                mid |-> NoneText, returned |-> FALSE, out |-> <<>>]

\* --- TagMapper.to_ud_feats on its own ---

MaxTags == 3
SourceTags == {"nom", "pl", "p1", "p3", "px1sg", "px3sp", "subst"}

ToUdFeats ==
    /\ pc = "call"
    /\ call.fn = "to_ud_feats"
    /\ ~call.returned
    /\ call' = [call EXCEPT !.returned = TRUE, !.out = to_ud_feats(call.apertium_feats)]
    /\ UNCHANGED process_vars

InitToUdFeats ==
    \E tags \in Strings(SourceTags, MaxTags) :
        call = [fn |-> "to_ud_feats", apertium_feats |-> tags, returned |-> FALSE, out |-> <<>>]

\* --- detect_script_segments on its own ---

\* SCRIPT_RANGES, on the characters of the model: the Cyrillic letters are those
\* named "c...", the other letters are Latin
SCRIPT_RANGES ==
    [Cyrl |-> {"cA", "ca", "cB", "cb", "cE", "ce", "cL", "cl", "cM", "cm", "cN", "cn",
               "cI", "ci", "cJ", "cj", "cEE", "cee", "cHS", "chs", "cSS", "css",
               "cYA", "cya", "cS", "cs", "cH", "ch", "cCH", "cch", "cSH", "csh",
               "cSHCH", "cshch"},
     Latn |-> {"A", "a", "B", "b", "E", "e", "L", "l", "M", "m", "N", "n", "W", "w",
               "E^", "e^", "I", "i", "Y^", "y^", "C", "c", "H", "h", "S", "s"}]

\* _char_to_script: None for the categories N, P, Z, S, C and for a character
\* of no range (a combining mark U+0301 is in none)
char_to_script(char) ==
    IF category(char) \in {"Nd", "Po", "Pf", "Pd", "Cf", "Sm"} THEN "None"
    ELSE IF char \in SCRIPT_RANGES.Latn THEN "Latn"
    ELSE IF char \in SCRIPT_RANGES.Cyrl THEN "Cyrl"
    ELSE "None"

\* the loop of detect_script_segments from character i on, and the final append
RECURSIVE segments_from(_, _, _, _, _)
segments_from(text, i, segments, current_script, current_start) ==
    IF i > Len(text)
    THEN IF current_script # "None"
         THEN Append(segments, <<SubSeq(text, current_start, Len(text)), current_script>>)
         ELSE segments
    ELSE LET char_script == char_to_script(text[i])
         IN IF char_script = "None"
            THEN segments_from(text, i + 1, segments, current_script, current_start)
            ELSE IF char_script # current_script
            THEN segments_from(text, i + 1,
                               IF current_script # "None"
                               THEN Append(segments,
                                           <<SubSeq(text, current_start, i - 1), current_script>>)
                               ELSE segments,
                               char_script, i)
            ELSE segments_from(text, i + 1, segments, current_script, current_start)

detect_script_segments_cut_at_every_letter(text) ==
    LET letters == {i \in 1..Len(text) : char_to_script(text[i]) # "None"}
        ends(i) == {j \in letters : j > i}
        stop(i) == IF ends(i) = {} THEN Len(text)
                   ELSE (CHOOSE j \in ends(i) : \A k \in ends(i) : j <= k) - 1
        starts == SelectSeq([i \in 1..Len(text) |-> i], LAMBDA i : i \in letters)
    IN [n \in 1..Len(starts) |->
           <<SubSeq(text, starts[n], stop(starts[n])), char_to_script(text[starts[n]])>>]

\* detect_script_segments
detect_script_segments(text) ==
    IF text = <<>> THEN <<>> ELSE segments_from(text, 1, <<>>, "None", 1)

MaxSegmentText == 4
SegmentAlphabet == {"a", "E^", "ca", "1", " ", "ACUTE"}

DetectSegments ==
    /\ pc = "call"
    /\ call.fn = "detect_script_segments"
    /\ ~call.returned
    /\ call' = [call EXCEPT !.returned = TRUE, !.out = detect_script_segments(call.text)]
    /\ UNCHANGED process_vars

InitDetectSegments ==
    \E t \in Strings(SegmentAlphabet, MaxSegmentText) :
        call = [fn |-> "detect_script_segments", text |-> t, returned |-> FALSE, out |-> <<>>]

\* --- the generic loop of Transliterator.transliterate on its own ---

MaxChunkText == 4
ChunkAlphabet == {"s", "S", "h", "H", "c", "C", "-"}

TransliterateGeneric ==
    /\ pc = "call"
    /\ call.fn = "Transliterator.transliterate"
    /\ ~call.returned
    /\ call' = [call EXCEPT !.returned = TRUE, !.out = transliterate(call.table, call.text)]
    /\ UNCHANGED process_vars

MaxUzbekText == 3
UzbekAlphabet == {"o", "g", "G", "'", "LSQ", "RSQ", "MTC", "MAP", "MPR", "GRAVE", "ACC", "PRM"}

InitTransliterateGeneric ==
    \/ \E t \in Strings(ChunkAlphabet, MaxChunkText) :
          call = [fn |-> "Transliterator.transliterate", table |-> "kaz_Latn_to_Cyrl",
                  text |-> t, returned |-> FALSE, out |-> <<>>]
    \/ \E t \in Strings(UzbekAlphabet, MaxUzbekText) :
          call = [fn |-> "Transliterator.transliterate", table |-> "uzb_Latn_to_Cyrl",
                  text |-> t, returned |-> FALSE, out |-> <<>>]

\* --- the mapping of a chosen reading by a mapper of the common table ---

CommonTags == {"ind", "imp", "opt", "cond", "neces", "p3", "pers"}

\* upos, raw_feats and feats as process() computes them from the reading
MapReading ==
    /\ pc = "call"
    /\ call.fn = "map_reading"
    /\ ~call.returned
    /\ LET upos == to_ud_pos(call.pos)
           raw_feats == to_ud_feats_with(CommonTurkicTagMapper_FEAT_MAP, call.feats)
       IN call' = [call EXCEPT !.returned = TRUE,
                               !.upos = upos,
                               !.raw_feats = raw_feats,
                               !.out = normalize_ud_feats_for_upos(upos, raw_feats)]
    /\ UNCHANGED process_vars

InitMapReading ==
    \E pos \in {"v", "prn"}, tags \in Strings(CommonTags, MaxTags) :
        call = [fn |-> "map_reading", pos |-> pos, feats |-> tags, returned |-> FALSE,
                upos |-> "None", raw_feats |-> <<>>, out |-> <<>>]

\* --- every call ---
InitCalls ==
    /\ NoProcess
    /\ pc = "call"
    /\ \/ InitVariants
       \/ InitConstruct
       \/ InitTransliterate
       \/ InitToUdFeats
       \/ InitDetectSegments
       \/ InitTransliterateGeneric
       \/ InitMapReading

NextCalls ==
    \/ Variants
    \/ Construct
    \/ Transliterate
    \/ ToUdFeats
    \/ DetectSegments
    \/ TransliterateGeneric
    \/ MapReading

SpecCalls == InitCalls /\ [][NextCalls]_vars

\* ------------------------------------------------------------------------
\* process() run to its return: a sequential loop, every step of which is taken
\* ------------------------------------------------------------------------
InitLive ==
    /\ Init
    /\ cfg \in {Processor(TRUE, "Latn", Lexicon1, CyrillicName),
                Processor(TRUE, "Cyrl", {}, AlwaysAmbiguous),
                Processor(TRUE, "None", {}, RaisesOnCapital),
                Processor(FALSE, "Cyrl", {}, NoAnalyses)}

\* process() is sequential code: as long as it has neither returned nor
\* raised, its next statement is executed.  The position <<pc, si, wi>> changes
\* with every step of Next, and a step of Next is possible exactly while
\* process() is running, so this is weak fairness of Next, written on the
\* position alone.
Proceed ==
    /\ pc \in {"idle", "pass1", "tagger", "pass2", "log"}
    /\ pc' \in {"pass1", "tagger", "pass2", "log", "done", "raised"}
    /\ si' \in 0..(MaxWords + 1)
    /\ wi' \in 0..(MaxWords + 1)

SpecLive == InitLive /\ [][Next]_vars /\ WF_<<pc, si, wi>>(Proceed)

\* ------------------------------------------------------------------------
\* process() of a processor that is configured with an external tagger
\* ------------------------------------------------------------------------

\* what the tagger process may do
TaggerProcesses ==
    [starts : BOOLEAN, returncode : {0, 1}, answer : {"first", "last", "other", "short"}]

TaggerWords ==
    {Token(Word(t, NoneText, NoneTag, NoneFeats), NoneTag) : t \in {T_dot, T_el, T_ma}}

InitTagger ==
    /\ cfg \in {WithTagger(Processor(TRUE, "Cyrl", {}, an), <<"-g", "kaz.prob">>, process) :
                   an \in {AlwaysAmbiguous, NoAnalyses}, process \in TaggerProcesses}
    /\ doc \in {d \in Docs : \A s \in 1..Len(d) : Range(d[s]) \subseteq TaggerWords} \cup {<<>>}
    /\ doc0 = doc
    /\ pc = "idle"
    /\ si = 0
    /\ wi = 0
    /\ rbw = <<>>
    /\ tagged = NoTagged
    /\ lookups = [s \in 1..Len(doc) |-> [w \in 1..Len(doc[s]) |-> NoLookup]]
    /\ path = [s \in 1..Len(doc) |-> [w \in 1..Len(doc[s]) |-> "pending"]]
    /\ stage = [s \in 1..Len(doc) |-> [w \in 1..Len(doc[s]) |-> <<"pending">>]]
    /\ log = <<>>
    /\ dz = NoHarness
    /\ call = NoCall

SpecTagger == InitTagger /\ [][Next]_vars

\* ------------------------------------------------------------------------
\* _disambiguate with a closed-class lexicon, with and without script bridging
\* ------------------------------------------------------------------------

LexiconSurfaces ==
    {T_el, <<"E", "l">>, <<"E^", "l">>, T_ma, <<"M", "a">>, <<"cm", "ca">>}

LexiconReadings ==
    {Reading(T_el, "post", <<>>, 0),
     Reading(T_el, "n", <<"nom">>, 0),
     Reading(T_ma, "part", <<>>, 0)}

InitLexicon ==
    /\ cfg \in {Processor(TRUE, "Latn", Lexicon1, NoAnalyses),
                Processor(TRUE, "Cyrl", Lexicon1, NoAnalyses),
                Processor(TRUE, "Cyrl", {}, NoAnalyses)}
    /\ \E rs \in UNION {[1..n -> LexiconReadings] : n \in 2..(MaxReadings + 1)},
          s \in LexiconSurfaces,
          c \in {<<<<>>, 0>>, <<<<Plain(T_el), Plain(T_el)>>, 1>>} :
          dz = [readings0 |-> rs, readings |-> rs, sentence_words |-> c[1],
                word_index |-> c[2], surface_text |-> s, results |-> <<>>]
    /\ doc = <<>>
    /\ doc0 = <<>>
    /\ pc = "harness"
    /\ si = 0
    /\ wi = 0
    /\ rbw = <<>>
    /\ tagged = NoTagged
    /\ lookups = <<>>
    /\ path = <<>>
    /\ stage = <<>>
    /\ log = <<>>
    /\ call = NoCall

SpecLexicon == InitLexicon /\ [][NextDisambiguate]_vars

\* ------------------------------------------------------------------------
\* _analyze on its own, over the raw outputs of the FST
\* ------------------------------------------------------------------------
MaxRawTokens == 5

\* the pieces a raw output is made of
RawTokens ==
    {<<"TAB">>, <<"^">>, <<"$">>, <<"/">>, <<"@">>, <<"e">>,
     <<"<", "n", ">">>, <<"<", "p", ">">>}

\* one call of _analyze on a transducer that answers with one raw output
Analyze ==
    /\ pc = "call"
    /\ call.fn = "_analyze"
    /\ ~call.returned
    /\ call' = [call EXCEPT
                  !.returned = TRUE,
                  !.out = analyze([cfg EXCEPT !.analyzer =
                                      Analyzer(TRUE, {}, <<<<call.output_str, call.weight>>>>, {})],
                                  T_el).readings]
    /\ UNCHANGED process_vars

InitAnalyze ==
    /\ NoProcess
    /\ pc = "call"
    /\ \E ts \in Strings(RawTokens, MaxRawTokens) :
          call = [fn |-> "_analyze", output_str |-> Flatten(ts), weight |-> 5,
                  returned |-> FALSE, out |-> <<>>]

SpecAnalyze == InitAnalyze /\ [][Analyze]_vars

\* ========================================================================
\* Properties
\* ========================================================================
\* positions <<sentence, word>> of the document
Positions == {<<s, w>> \in (1..Len(doc0)) \X (1..MaxWords) : w <= Len(doc0[s])}

\* the two candidates of a list of two, named by their places
Places == {<<1, 2>>, <<2, 1>>}

\* the weight of reading i is strictly below the weight of every other reading
StrictlyLightest(rs, i) == \A j \in 1..Len(rs) : j # i => rs[i].weight < rs[j].weight

\* the score _disambiguate gives a candidate of the harness call
ScoreOf(r) == context_score(cfg, r, dz.sentence_words, dz.word_index, dz.surface_text)

\* ---- C1 ----------------------------------------------------------------
\* C1: when a candidate list has two or more readings and one of them has an FST
\* weight strictly lower than every other, _disambiguate returns that reading,
\* whatever the context scores, POS priorities and feature counts are.
C1_LowestWeightWins ==
    \A i \in 1..Len(dz.readings0) :
        (Len(dz.readings0) >= 2 /\ StrictlyLightest(dz.readings0, i))
            => \A k \in 1..Len(dz.results) : dz.results[k] = dz.readings0[i]

\* the lightest reading was returned although another candidate scores higher in
\* context and has the better POS priority
C1_Witness ==
    /\ Len(dz.results) >= 1
    /\ \E <<i, j>> \in Places :
          /\ Len(dz.readings0) = 2
          /\ StrictlyLightest(dz.readings0, i)
          /\ ScoreOf(dz.readings0[j]) > ScoreOf(dz.readings0[i])
          /\ pos_priority(dz.readings0[j].pos) < pos_priority(dz.readings0[i].pos)
          /\ dz.results[1] = dz.readings0[i]

\* ---- C2 ----------------------------------------------------------------
IsNoun(r) == r.pos \in {"n", "np"}
IsTensedVerb(r) == r.pos \in {"v", "vaux"} /\ Range(r.feats) \cap tense_tags # {}

\* the harness call is on a noun reading n and a tensed verb reading v of equal
\* weight, for a word of a sentence
NounVerbPair(n, v) ==
    /\ Len(dz.readings0) = 2
    /\ dz.word_index # 0
    /\ IsNoun(dz.readings0[n])
    /\ IsTensedVerb(dz.readings0[v])
    /\ dz.readings0[n].weight = dz.readings0[v].weight

FinalWord == is_final_lexical_position(dz.sentence_words, dz.word_index)
NoParticleNext == ~next_is_question_particle(dz.sentence_words, dz.word_index)

\* the lexicon lists the surface with the universal POS of reading r
LexiconLists(r) ==
    /\ dz.surface_text # NoneText
    /\ \E i \in 1..Len(lookup_lexicon(cfg, dz.surface_text)) :
          lookup_lexicon(cfg, dz.surface_text)[i][1] = to_ud_pos(r.pos)

\* C2 as stated: of a noun reading and a tensed verb reading of equal weight,
\* _disambiguate returns the verb for the last non-punctuation word of the
\* sentence, and the noun for a non-final word not followed by a question particle.
C2_VerbFinalNounElsewhere ==
    \A <<n, v>> \in Places : \A k \in 1..Len(dz.results) :
        NounVerbPair(n, v) =>
            /\ FinalWord => dz.results[k] = dz.readings0[v]
            /\ (~FinalWord /\ NoParticleNext) => dz.results[k] = dz.readings0[n]

\* C2, amended: the verb is returned for the final word; the noun is returned for
\* a non-final word not followed by a question particle provided the noun reading
\* carries no verbal tag and the lexicon does not list the surface as the verb's POS.
C2_VerbFinalNounElsewhereUnlessBoosted ==
    \A <<n, v>> \in Places : \A k \in 1..Len(dz.results) :
        NounVerbPair(n, v) =>
            /\ FinalWord => dz.results[k] = dz.readings0[v]
            /\ (/\ ~FinalWord
                /\ NoParticleNext
                /\ Range(dz.readings0[n].feats) \cap verbal_tags = {}
                /\ ~LexiconLists(dz.readings0[v]))
                   => dz.results[k] = dz.readings0[n]

\* a non-final word: the noun was returned although the verb came first in the list
C2_Witness ==
    /\ Len(dz.results) >= 1
    /\ NounVerbPair(2, 1)
    /\ ~FinalWord
    /\ NoParticleNext
    /\ dz.results[1] = dz.readings0[2]
    /\ dz.readings # dz.readings0

\* ---- the document after process ----------------------------------------
TextAt(p) == doc0[p[1]][p[2]].text
Before(p) == doc0[p[1]][p[2]]
After(p) ==
    LET word == doc[p[1]][p[2]] IN Word(word.text, word.lemma, word.upos, word.feats)
PathOf(p) == path[p[1]][p[2]]
LookupOf(p) == lookups[p[1]][p[2]]
Unanalysed(p) == PathOf(p) \in {"fallback", "last_resort"}

\* the lookup variants of the word at p, as handed to the FST
VariantsAt(p) == lookup_variants(fst_surface(cfg, TextAt(p)))

\* the readings the FST yields for a surface; an error yields none
Yields(v) ==
    IF fst_lookup(cfg.analyzer, v).err THEN <<>>
    ELSE parse_results(fst_lookup(cfg.analyzer, v).results)

\* the FST raised for one of the surfaces submitted for the word at p
RaisedAt(p) ==
    \E i \in 1..Len(LookupOf(p).submitted) :
        fst_lookup(cfg.analyzer, LookupOf(p).submitted[i]).err

\* process was given sentences and a loaded analyzer, and did not raise
NoError == (cfg.loaded /\ doc0 # <<>>) => pc # "raised"

\* the upos and feats the last resort leaves: defaults only where there was none
KeptOrDefault(p) ==
    /\ After(p).upos = IF Before(p).upos = NoneTag THEN "X" ELSE Before(p).upos
    /\ After(p).feats = IF Before(p).feats = NoneFeats THEN Underscore ELSE Before(p).feats

\* ---- C3 ----------------------------------------------------------------
\* C3 as stated: after process returns every word has a lemma, a upos and a feats
\* (none is null), on every path; a word with no analysis and no matching
\* heuristic gets upos X and feats '_'.
C3_NeverNullUnknownIsX ==
    pc = "done" =>
        \A p \in Positions :
            /\ After(p).lemma # NoneText
            /\ After(p).upos # NoneTag
            /\ After(p).feats # NoneFeats
            /\ PathOf(p) = "last_resort" =>
                  After(p).upos = "X" /\ After(p).feats = Underscore

\* C3, amended: after process returns no word has a null lemma, upos or feats; a
\* word with no analysis and no matching heuristic gets its surface as lemma, and
\* gets X and '_' only where it had no upos or feats before: an existing upos or
\* feats is kept.
C3_NeverNullUnknownKeepsTags ==
    pc = "done" =>
        \A p \in Positions :
            /\ After(p).lemma # NoneText
            /\ After(p).upos # NoneTag
            /\ After(p).feats # NoneFeats
            /\ PathOf(p) = "last_resort" =>
                  After(p).lemma = TextAt(p) /\ KeptOrDefault(p)

\* process returned; an untagged word fell to the last resort and got X and '_',
\* next to a word that was analysed
C3_Witness ==
    /\ pc = "done"
    /\ \E p, q \in Positions :
          /\ PathOf(p) = "last_resort"
          /\ Before(p).upos = NoneTag
          /\ After(p) = Word(TextAt(p), TextAt(p), "X", Underscore)
          /\ PathOf(q) = "analysed"

\* ---- C4 ----------------------------------------------------------------
\* C4 as stated: when the FST lookup raises for a surface form the error is
\* caught and counts as zero readings: process does not raise, that word goes to
\* the unknown-word fallback chain, and every other word is still processed.
C4_ErrorMeansFallback ==
    /\ NoError
    /\ pc = "done" =>
          \A p \in Positions :
              /\ PathOf(p) # "pending"
              /\ RaisedAt(p) => Unanalysed(p)

\* C4, amended: an error of the FST lookup is caught and counts as zero readings
\* for the variant that was submitted; process does not raise, the remaining
\* variants are still tried, the word goes to the unknown-word fallback chain
\* exactly when no variant yields a reading, and every other word is processed.
C4_ErrorMeansNoReadingsForVariant ==
    /\ NoError
    /\ pc = "done" =>
          \A p \in Positions :
              /\ PathOf(p) # "pending"
              /\ RaisedAt(p) =>
                    IF \E i \in 1..Len(VariantsAt(p)) : Yields(VariantsAt(p)[i]) # <<>>
                    THEN PathOf(p) = "analysed"
                    ELSE Unanalysed(p)

\* process returned; the FST raised for a word, which took the fallback chain, and
\* another word of the document was analysed
C4_Witness ==
    /\ pc = "done"
    /\ \E p, q \in Positions :
          /\ RaisedAt(p)
          /\ Unanalysed(p)
          /\ PathOf(q) = "analysed"

\* ---- C5 ----------------------------------------------------------------
\* C5: _analyze_with_fallback hands the lookup variants of a surface to the FST
\* one at a time in the order lookup_variants gives, returns the readings of the
\* first variant that yields any, submits no variant after it, and returns the
\* empty list only when every variant yielded no reading.
C5_VariantsInOrderUntilFirstHit ==
    \A p \in Positions :
        LET sub == LookupOf(p).submitted
            vs == VariantsAt(p)
        IN /\ Len(sub) <= Len(vs)
           /\ sub = SubSeq(vs, 1, Len(sub))
           /\ \A i \in 1..(Len(sub) - 1) : Yields(sub[i]) = <<>>
           /\ sub # <<>> => LookupOf(p).readings = Yields(sub[Len(sub)])
           /\ (sub # <<>> /\ LookupOf(p).readings = <<>>) => sub = vs

\* a lookup that stopped at a variant after the first and before the last
C5_Witness ==
    \E p \in Positions :
        /\ Len(LookupOf(p).submitted) >= 2
        /\ Len(LookupOf(p).submitted) < Len(VariantsAt(p))
        /\ LookupOf(p).readings # <<>>

\* ---- C6 ----------------------------------------------------------------
Capitalized(t) == is_cased_script(t) /\ first_isupper(t)

\* some word before p in its sentence is not punctuation
NotFirstLexical(p) ==
    \E k \in 1..(p[2] - 1) : ~is_punctuation_token(doc0[p[1]][k].text)

Numeric(t) == is_numeric_token(t)

ApostropheSuffix(t) ==
    /\ Capitalized(t)
    /\ "'" \in Range(normalize_for_lookup(t))
    /\ stem_of(normalize_for_lookup(t)) # <<>>
    /\ isalpha(suffix_of(normalize_for_lookup(t)))
    /\ Len(suffix_of(normalize_for_lookup(t))) <= 4

Halves(t) == hyphen_parts(normalize_hyphens(normalize_for_lookup(t)))

Reduplicated(t) ==
    /\ "-" \in Range(normalize_hyphens(normalize_for_lookup(t)))
    /\ Len(Halves(t)) = 2
    /\ lexeme_key(Halves(t)[1]) = lexeme_key(Halves(t)[2])

InLexicon(t) == lookup_lexicon(cfg, t) # <<>>

\* the fallback ran for the word at p only after every variant gave no reading
OnlyAfterEveryVariant(p) ==
    /\ Unanalysed(p) =>
          /\ LookupOf(p).submitted = VariantsAt(p)
          /\ \A i \in 1..Len(VariantsAt(p)) : Yields(VariantsAt(p)[i]) = <<>>
    /\ PathOf(p) = "analysed" => LookupOf(p).readings # <<>>

\* the first five rules of the decision list, in order, for the word at p;
\* `otherwise` is what holds when none of them matches
DecisionList(p, otherwise) ==
    LET t == TextAt(p)
    IN IF Numeric(t) THEN After(p) = Word(t, t, "NUM", <<"NumType=Card">>)
       ELSE IF ApostropheSuffix(t)
            THEN After(p) = Word(t, stem_of(normalize_for_lookup(t)), "PROPN", Underscore)
       ELSE IF Reduplicated(t)
            THEN After(p) = Word(t, lower(Halves(t)[1]), "ADV", Underscore)
       ELSE IF Capitalized(t) /\ NotFirstLexical(p)
            THEN After(p) = Word(t, normalize_for_lookup(t), "PROPN", Underscore)
       ELSE IF InLexicon(t)
            THEN After(p) = Word(t, lower(t), lookup_lexicon(cfg, t)[1][1],
                                 lookup_lexicon(cfg, t)[1][2])
       ELSE otherwise

C7_CapitalizedMidSentenceIsPropn ==
    \A p \in Positions :
        (Unanalysed(p) /\ Capitalized(TextAt(p)) /\ NotFirstLexical(p))
            => /\ After(p).upos = "PROPN"
               /\ After(p).lemma = normalize_for_lookup(TextAt(p))

\* C7, amended: such a token is tagged PROPN with its normalized surface as lemma
\* unless an earlier rule takes it: a token with an apostrophe and a short
\* alphabetic suffix is PROPN with the stem as lemma, and a reduplicated
\* hyphenated token is ADV.
C7_CapitalizedMidSentenceIsPropnUnlessEarlierRule ==
    \A p \in Positions :
        (/\ Unanalysed(p)
         /\ Capitalized(TextAt(p))
         /\ NotFirstLexical(p)
         /\ ~ApostropheSuffix(TextAt(p))
         /\ ~Reduplicated(TextAt(p)))
            => /\ After(p).upos = "PROPN"
               /\ After(p).lemma = normalize_for_lookup(TextAt(p))
               /\ After(p).feats = Underscore

\* a capitalized token in mid-sentence whose normalized surface differs from its
\* text was tagged PROPN with the normalized surface
C7_Witness ==
    \E p \in Positions :
        /\ PathOf(p) = "fallback"
        /\ Capitalized(TextAt(p))
        /\ NotFirstLexical(p)
        /\ normalize_for_lookup(TextAt(p)) # TextAt(p)
        /\ After(p).upos = "PROPN"
        /\ After(p).lemma = normalize_for_lookup(TextAt(p))

\* ---- C8 ----------------------------------------------------------------
\* the document is one sentence of one word that is looked up, and the FST
\* answers its surface with ("w<n><dat><sg>", 0.5) and ("w<n><nom><sg>", 1.0)
SingleWordExample ==
    /\ Len(doc0) = 1
    /\ Len(doc0[1]) = 1
    /\ ~fast_path(doc0[1][1])
    /\ fst_lookup(cfg.analyzer, fst_surface(cfg, doc0[1][1].text))
          = [err |-> FALSE, results |-> R_w]

\* C8: processing a single word whose FST lookup returns ("w<n><dat><sg>", 0.5)
\* and ("w<n><nom><sg>", 1.0) writes lemma 'w', upos NOUN and feats
\* 'Case=Dat|Number=Sing' to the word.
C8_SingleWordExample ==
    (pc = "done" /\ SingleWordExample)
        => After(<<1, 1>>) = Word(doc0[1][1].text, <<"w">>, "NOUN", <<"Case=Dat", "Number=Sing">>)

\* the example was processed: two readings were parsed and the dative one written
C8_Witness ==
    /\ pc = "done"
    /\ SingleWordExample
    /\ Len(lookups[1][1].readings) = 2
    /\ path[1][1] = "analysed"
    /\ doc[1][1].feats = <<"Case=Dat", "Number=Sing">>

\* ---- C9 ----------------------------------------------------------------
\* every feature of a feats string has a prefix on the whitelist of upos
OnWhitelist(upos, feats) ==
    /\ feats # NoneFeats
    /\ feats # Underscore =>
          \A i \in 1..Len(feats) : \E pfx \in allowed_prefixes(upos) : startswith(feats[i], pfx)

\* C9: for every analysed word, each feature of the feats string process writes
\* has a category prefix on the whitelist of the word's universal POS (the tags
\* nom, p3, aor on a proper noun leave Case=Nom only); when no mapped feature is
\* on the whitelist the feats string is '_', and no error is raised.
C9_FeatsOnWhitelist ==
    /\ NoError
    /\ \A p \in Positions :
          PathOf(p) = "analysed" =>
              /\ OnWhitelist(After(p).upos, After(p).feats)
              /\ LookupOf(p).readings = parse_results(R_np) =>
                    After(p).upos = "PROPN" /\ After(p).feats = <<"Case=Nom">>
              /\ LookupOf(p).readings = parse_results(R_adv) =>
                    After(p).upos = "ADV" /\ After(p).feats = Underscore

\* a proper-noun reading with the tags nom, p3, aor was written with Case=Nom only
C9_Witness ==
    \E p \in Positions :
        /\ PathOf(p) = "analysed"
        /\ LookupOf(p).readings = parse_results(R_np)
        /\ map_ud_feats(FEAT_MAP, LookupOf(p).readings[1].feats)
              = <<<<"Case=Nom">>, <<"Person=3">>, <<"Tense=Aor">>>>
        /\ After(p).feats = <<"Case=Nom">>

\* ---- C10 ---------------------------------------------------------------
\* C10: _disambiguate is deterministic: a second call on the same candidate list
\* object, which the first call has sorted in place, returns the reading the
\* first call returned.
C10_SecondCallSameReading ==
    Len(dz.results) = 2 => dz.results[1] = dz.results[2]

\* two calls were made and the first one reordered the list the second one read
C10_Witness ==
    /\ Len(dz.results) = 2
    /\ Len(dz.readings0) >= 2
    /\ dz.readings # dz.readings0
    /\ dz.results[2] = dz.readings[1]


\* ------------------------------------------------------------------------
\* C11: for every surface string, _lookup_variants returns a non-empty ordered
\* list whose first element is the unmodified surface.  (As stated; the empty
\* surface refutes it.)
C11_VariantsNeverEmpty ==
    (call.fn = "_lookup_variants" /\ call.returned) => (call.out # <<>> /\ call.out[1] = call.text)

\* C11, amended: for every non-empty surface string, _lookup_variants returns
\* a non-empty list without repetitions whose first element is the unmodified
\* surface; for the empty surface it returns the empty list.
C11_VariantsOfNonEmptySurface ==
    (call.fn = "_lookup_variants" /\ call.returned) =>
        /\ call.text # <<>> => (call.out # <<>> /\ call.out[1] = call.text)
        /\ call.text = <<>> => call.out = <<>>
        /\ \A i, j \in 1..Len(call.out) : call.out[i] = call.out[j] => i = j

\* a surface whose lower-cased, normalised form differs from it got several
\* variants, the surface itself first
C11_Witness ==
    /\ call.fn = "_lookup_variants"
    /\ call.returned
    /\ call.text # <<>>
    /\ Len(call.out) >= 3
    /\ call.out[1] = call.text
    /\ call.out[2] = lower(call.text)

\* ------------------------------------------------------------------------
\* C12: constructing a Transliterator for a (language, source, target) triple
\* without a registered table '<language>_<source>_to_<target>' fails with an
\* error at construction time, so no object exists for an unregistered triple;
\* for a registered triple the object carries the table of exactly that key.
C12_UnregisteredPairRaises ==
    (call.fn = "Transliterator" /\ call.returned) =>
        LET key == table_key(call.lang, call.source, call.target)
        IN /\ key \notin TABLE_KEYS => call.out = [raised |-> "ValueError"]
           /\ key \in TABLE_KEYS => (call.out.raised = "None" /\ call.out.forward_map = key)

\* the test's triple: Kazakh from the Perso-Arabic script, a language that has
\* tables for other pairs
C12_Witness ==
    /\ call.fn = "Transliterator"
    /\ call.returned
    /\ <<call.lang, call.source, call.target>> = <<"kaz", "Arab", "Latn">>
    /\ call.out = [raised |-> "ValueError"]

Merged(there) ==
    IF there = "tuk_Cyrl_to_Latn"
    THEN [letters |-> {"cee", "chs", "css"},
          pairs |-> {<<"cj", "ca">>, <<"cj", "ce">>, <<"cj", "co">>, <<"cj", "cu">>,
                     <<"ct", "cs">>, <<"csh", "cch">>}]
    ELSE [letters |-> {"ci", "cj", "chh", "cee", "chs", "css"},
          pairs |-> {<<"csh", "cch">>, <<"cs", "ckh">>, <<"ct", "csh">>,
                     <<"ct", "cshch">>, <<"ct", "cs">>, <<"cy", "ca">>,
                     <<"cy", "co">>, <<"cy", "cu">>}]

Unmerged(there, text) ==
    LET low == lower(text)
    IN /\ \A i \in 1..Len(low) : low[i] \notin Merged(there).letters
       /\ \A i \in 1..(Len(low) - 1) : <<low[i], low[i + 1]>> \notin Merged(there).pairs

StageOf(p) == stage[p[1]][p[2]]

\* the first loop has handled the word at p
Looped(p) == StageOf(p) # <<"pending">>

\* C14: a word that is already tagged PUNCT, or whose text consists only of
\* punctuation characters, takes the fast path: once the first loop has
\* handled it, it has lemma = its text, upos = PUNCT and feats = '_' and it
\* keeps them, it went from pending straight to done, and no surface of it
\* was handed to the FST, nor was it given to the unknown-word fallback or to
\* the disambiguator.
C14_PunctFastPath ==
    \A p \in Positions :
        (Looped(p) /\ (Before(p).upos = "PUNCT" \/ is_punctuation_token(TextAt(p))))
            => /\ After(p) = Word(TextAt(p), TextAt(p), "PUNCT", Underscore)
               /\ StageOf(p) = <<"pending", "done">>
               /\ PathOf(p) = "punct"
               /\ LookupOf(p) = NoLookup

\* a word tagged PUNCT whose text is a word the FST has readings for, after
\* the whole call
C14_Witness ==
    /\ pc = "done"
    /\ cfg.analyzer = AlwaysAmbiguous
    /\ \E p \in Positions :
          /\ Before(p).upos = "PUNCT"
          /\ ~is_punctuation_token(TextAt(p))
          /\ analyze_with_fallback(cfg, fst_surface(cfg, TextAt(p))).readings # <<>>
          /\ After(p) = Word(TextAt(p), TextAt(p), "PUNCT", Underscore)
          /\ LookupOf(p) = NoLookup

\* ------------------------------------------------------------------------
\* the place of a state in the order the claim gives, and in the order of the
\* statements of process()
ClaimedRank(st) ==
    CASE st = "pending" -> 0
      [] st = "normalized" -> 1
      [] st = "translated" -> 2
      [] st = "looked-up" -> 3
      [] st \in {"parsed", "unknown-fallback"} -> 4
      [] st = "disambiguated" -> 5
      [] st = "mapped" -> 6
      [] st = "done" -> 7

StatementRank(st) ==
    CASE st = "translated" -> 1
      [] st = "normalized" -> 2
      [] OTHER -> ClaimedRank(st)

Ascending(ranks) == \A i \in 1..(Len(ranks) - 1) : ranks[i] < ranks[i + 1]

\* the states of a word only grow, at the end
Extends(old, new) == Len(old) <= Len(new) /\ SubSeq(new, 1, Len(old)) = old

OnlyForward ==
    [][\A p \in Positions : Extends(stage[p[1]][p[2]], stage'[p[1]][p[2]])]_vars

\* at the return every word is done; a word whose lookup gave nothing went
\* through unknown-fallback, a word with readings through parsed,
\* disambiguated and mapped, next to each other in one sentence
Finished ==
    /\ pc = "done"
    /\ \A p \in Positions :
          /\ StageOf(p)[Len(StageOf(p))] = "done"
          /\ PathOf(p) # "punct" =>
                /\ LookupOf(p).readings = <<>> <=> "unknown-fallback" \in Range(StageOf(p))
                /\ LookupOf(p).readings # <<>> <=>
                      {"parsed", "disambiguated", "mapped"} \subseteq Range(StageOf(p))

Called == pc = "idle" /\ cfg.loaded /\ doc # <<>>

\* C15 (as stated, with normalized before translated): every word moves
\* forward through pending, normalized, (translated), looked-up, then parsed,
\* disambiguated, mapped or unknown-fallback, then done, never back, and the
\* call ends with every word done.
C15_ForwardInClaimedOrder ==
    /\ [](\A p \in Positions : Ascending([i \in 1..Len(StageOf(p)) |-> ClaimedRank(StageOf(p)[i])]))
    /\ OnlyForward
    /\ (Called ~> Finished)

\* C15, amended: within one process call every word moves forward through
\* the states pending, (translated), normalized, looked-up, then either
\* parsed, disambiguated, mapped or unknown-fallback, and finally done,
\* without ever returning to an earlier state; a word whose lookup yields
\* nothing goes to unknown-fallback while the other words continue, and the
\* call terminates with every word of the document in done.
C15_ForwardInStatementOrder ==
    /\ [](\A p \in Positions : Ascending([i \in 1..Len(StageOf(p)) |-> StatementRank(StageOf(p)[i])]))
    /\ OnlyForward
    /\ (Called ~> Finished)

\* a sentence of a bridged processor in which one word had no reading and
\* the other was analysed
C15_Witness ==
    /\ pc = "done"
    /\ \E p, q \in Positions :
          /\ p[1] = q[1]
          /\ StageOf(p) = <<"pending", "translated", "normalized", "looked-up",
                            "unknown-fallback", "done">>
          /\ StageOf(q) = <<"pending", "translated", "normalized", "looked-up",
                            "parsed", "disambiguated", "mapped", "done">>

\* ------------------------------------------------------------------------
\* the processor's script is declared and differs from the script of the FST
ScriptsDiffer == cfg.script # "None" /\ cfg.script # cfg.apertium_script

\* the reading process() chooses for the analysed word at p
Chosen(p) == disambiguate(cfg, LookupOf(p).readings, doc0[p[1]], p[2], TextAt(p))

\* the first loop has looked the word at p up
LookedUp(p) == "looked-up" \in Range(StageOf(p))

\* C16: script bridging happens exactly when the processor's script differs
\* from the script the FST expects.  Then the surface is transliterated into
\* the FST script before it is looked up (the variants handed to the FST are
\* those of the transliterated surface) and the lemma of the chosen reading is
\* transliterated back before it is written.  When the scripts are equal, or
\* none is declared, no word passes a transliteration step, the FST gets the
\* variants of the surface itself, and the lemma is written as the FST gave it.
C16_BridgingIffScriptsDiffer ==
    \A p \in Positions :
        /\ LookedUp(p) =>
              /\ ScriptsDiffer <=> "translated" \in Range(StageOf(p))
              /\ LookupOf(p).submitted[1] =
                    IF ScriptsDiffer THEN transliterate("kaz_Latn_to_Cyrl", TextAt(p))
                    ELSE TextAt(p)
        /\ PathOf(p) = "analysed" =>
              After(p).lemma =
                    IF ScriptsDiffer THEN transliterate("kaz_Cyrl_to_Latn", Chosen(p).lemma)
                    ELSE Chosen(p).lemma

\* a Latin word of a Latin-script processor was looked up in Cyrillic and its
\* Cyrillic lemma was written in Latin
C16_Witness ==
    /\ pc = "done"
    /\ cfg.script = "Latn"
    /\ cfg.apertium_script = "Cyrl"
    /\ \E p \in Positions :
          /\ PathOf(p) = "analysed"
          /\ TextAt(p) = T_AlaQ
          /\ LookupOf(p).submitted[1] = <<"cA", "cl", "ca", "RSQ">>
          /\ Chosen(p).lemma = <<"cA", "cl", "ca">>
          /\ After(p).lemma = T_Ala

\* the tagger is configured
TaggerConfigured == cfg.tagger_cmd # "None" /\ cfg.tagger_args # <<>>

\* the candidate list of the sentence of p, as the first loop leaves it
ReadingsByWord(p) ==
    [w \in 1..Len(doc0[p[1]]) |->
        Entry(path[p[1]][w] = "punct", lookups[p[1]][w].readings)]

\* what the tagger process returns for the sentence of p
TaggerRun(p) ==
    subprocess_run(cfg.subprocess, build_apertium_stream(doc0[p[1]], ReadingsByWord(p)))

\* the units "^...$" of the tagger's output, without their delimiters
TaggerUnits(p) ==
    LET us == Split(TaggerRun(p).stdout, " ")
    IN [i \in 1..Len(us) |-> SubSeq(us[i], 2, Len(us[i]) - 1)]

\* the run succeeded with one unit per word
TaggerSucceeded(p) ==
    /\ ~TaggerRun(p).raised
    /\ TaggerRun(p).returncode = 0
    /\ TaggerRun(p).stdout # <<>>
    /\ Len(TaggerUnits(p)) = Len(doc0[p[1]])

\* the candidate of the word at p that the tagger's output names
Named(p) == select_reading(TaggerUnits(p)[p[2]], LookupOf(p).readings)

\* C17: when the tagger is configured and its run succeeds with one unit per
\* word, a word whose analysis in the tagger's output equals one of its
\* candidates in lemma, pos and feats gets its lemma, upos and feats from that
\* candidate.
C17_TaggerChoiceIsUsed ==
    \A p \in Positions :
        (/\ TaggerConfigured
         /\ PathOf(p) = "analysed"
         /\ TaggerSucceeded(p)
         /\ ~Named(p).none)
        => After(p) = analysed(cfg, doc0[p[1]][p[2]], Named(p).reading)

\* the tagger's result is unusable for the sentence of p
TaggerUnusable(p) ==
    \/ TaggerRun(p).raised
    \/ TaggerRun(p).returncode # 0
    \/ TaggerRun(p).stdout = <<>>
    \/ Len(TaggerUnits(p)) # Len(doc0[p[1]])

Kept(d, p) == [text |-> d[p[1]][p[2]].text, misc |-> d[p[1]][p[2]].misc]

\* the sentences and words of d are those of the document process() was given
SameShape(d) ==
    /\ Len(d) = Len(doc0)
    /\ \A s \in 1..Len(doc0) : Len(d[s]) = Len(doc0[s])

\* C19: process() changes nothing in a document except the lemma, upos and
\* feats of its words: after every step the document has the sentences and
\* words it had before the call, in the same order, and every word has the text
\* and the other fields it had; and a step writes no word but the one the loop
\* is at, so the neighbours a word's disambiguation consults are as they were.
C19_OnlyThreeFieldsOfTheCurrentWord ==
    [][/\ SameShape(doc')
       /\ \A p \in Positions :
             /\ DOMAIN doc'[p[1]][p[2]] = DOMAIN doc0[p[1]][p[2]]
             /\ Kept(doc', p) = Kept(doc0, p)
             /\ p # <<si, wi>> => doc'[p[1]][p[2]] = doc[p[1]][p[2]]]_vars

\* process() has returned from a sentence of two words in which a word with
\* misc set was analysed among its candidates and written
C19_Witness ==
    /\ pc = "done"
    /\ \E p \in Positions :
          /\ Len(doc0[p[1]]) = 2
          /\ Before(p).misc = "SpaceAfter=No"
          /\ PathOf(p) = "analysed"
          /\ Len(LookupOf(p).readings) >= 2
          /\ After(p).upos # Before(p).upos
          /\ doc[p[1]][p[2]].misc = "SpaceAfter=No"

\* to_ud_feats has returned
Mapped == call.fn = "to_ud_feats" /\ call.returned

\* the source tags with a mapping
HasMapping(tag) == \E e \in FEAT_MAP : e[1] = tag

\* the orders in which the source tags of the call can be given
Reorderings(tags) ==
    {[i \in 1..Len(tags) |-> tags[f[i]]] :
        f \in {g \in [1..Len(tags) -> 1..Len(tags)] : Range(g) = 1..Len(tags)}}

\* '_' exactly when no source tag has a mapping
UnderscoreWhenNothingMaps ==
    Mapped => (call.out = Underscore <=> \A tag \in Range(call.apertium_feats) : ~HasMapping(tag))

\* the result does not depend on the order of the source tags
IndependentOfOrder ==
    Mapped => \A tags \in Reorderings(call.apertium_feats) : to_ud_feats(tags) = call.out

\* the features between the '|' of the result are in ascending order
FeaturesAscending ==
    (Mapped /\ call.out # Underscore) =>
        \A i, j \in 1..Len(call.out) : i < j => Rank(call.out[i]) <= Rank(call.out[j])

\* C20: for every sequence of source feature tags, to_ud_feats returns '_'
\* when no tag has a mapping, and otherwise the mapped universal features
\* joined by '|', the individual features in ascending alphabetical order,
\* whatever the order of the source tags.
C20_SortedFeaturesWhateverTheOrder ==
    /\ UnderscoreWhenNothingMaps
    /\ IndependentOfOrder
    /\ FeaturesAscending

\* detect_script_segments has returned
Segmented == call.fn = "detect_script_segments" /\ call.returned

\* the positions of the text whose character is classified in a script
Classified(text) == {i \in 1..Len(text) : char_to_script(text[i]) # "None"}

\* the text from its first classified character on
FromFirstClassified(text) ==
    IF Classified(text) = {} THEN <<>>
    ELSE SubSeq(text, CHOOSE i \in Classified(text) : \A k \in Classified(text) : i <= k,
                Len(text))

\* what the claim and its amended form share: consecutive segments differ in
\* script, every segment has a character of its script and none of another,
\* and a text without classified character gives the empty list
RunsOfOneScript(segments, text) ==
    /\ \A n \in 1..(Len(segments) - 1) : segments[n][2] # segments[n + 1][2]
    /\ \A n \in 1..Len(segments) :
          /\ \E i \in 1..Len(segments[n][1]) : char_to_script(segments[n][1][i]) = segments[n][2]
          /\ \A i \in 1..Len(segments[n][1]) :
                char_to_script(segments[n][1][i]) \in {"None", segments[n][2]}
    /\ Classified(text) = {} => segments = <<>>

\* C21 as stated: the segments are maximal runs of one script into which every
\* neutral character of the text is merged.
C21_NeutralsAreMerged ==
    Segmented =>
        /\ RunsOfOneScript(call.out, call.text)
        /\ Classified(call.text) # {} =>
              Flatten([n \in 1..Len(call.out) |-> call.out[n][1]]) = call.text

\* C21: consecutive segments have different scripts, every segment begins with
\* a character of its script and holds no character of another script, a text
\* with no classified character gives the empty list, and the segments, put
\* together, are the text from its first classified character on: neutral
\* characters after a classified character are in the run before them, neutral
\* characters before the first classified character are in no segment.
C21_RunsFromFirstClassified ==
    Segmented =>
        /\ RunsOfOneScript(call.out, call.text)
        /\ \A n \in 1..Len(call.out) : char_to_script(call.out[n][1][1]) = call.out[n][2]
        /\ Flatten([n \in 1..Len(call.out) |-> call.out[n][1]]) = FromFirstClassified(call.text)

\* "1a са": the digit is dropped, the blank stays with the Latin run
C21_Witness ==
    /\ Segmented
    /\ call.text = <<"1", "a", " ", "ca">>
    /\ call.out = << <<<<"a", " ">>, "Latn">>, <<<<"ca">>, "Cyrl">> >>

\* the generic transliterate has returned
GenericDone == call.fn = "Transliterator.transliterate" /\ call.returned

\* the text the loop scans: for Uzbek Latin to Cyrillic, the text with its
\* apostrophes normalized
LoopText ==
    IF call.table = "uzb_Latn_to_Cyrl" THEN normalize_uzb_apostrophes(call.text)
    ELSE call.text

\* a chunk is a table key, exactly or after lowercasing
IsKey(table, chunk) ==
    \E e \in TRANSLITERATION_TABLES(table) : e[1] = chunk \/ e[1] = lower(chunk)

\* the length of the longest chunk at position i that is a key, 0 when there is none
LongestKey(table, text, i) ==
    LET lens == {k \in 1..4 : i + k - 1 <= Len(text) /\ IsKey(table, SubSeq(text, i, i + k - 1))}
    IN IF lens = {} THEN 0 ELSE CHOOSE k \in lens : \A m \in lens : m <= k

\* what is emitted for the chunk of length k at position i
Emitted(table, text, i, k) ==
    LET chunk == SubSeq(text, i, i + k - 1)
        exact == {e \in TRANSLITERATION_TABLES(table) : e[1] = chunk}
        folded == {e \in TRANSLITERATION_TABLES(table) : e[1] = lower(chunk)}
        mapped == (CHOOSE e \in folded : TRUE)[2]
    IN IF k = 0 THEN <<text[i]>>
       ELSE IF exact # {} THEN (CHOOSE e \in exact : TRUE)[2]
       ELSE IF category(chunk[1]) # "Lu" THEN mapped
       ELSE IF Len(mapped) = 1 THEN <<upper_ch(mapped[1])>>
       ELSE [n \in 1..Len(mapped) |-> IF n = 1 THEN upper_ch(mapped[n]) ELSE mapped[n]]

\* the output of a left-to-right scan from position i on
RECURSIVE Scan(_, _, _)
Scan(table, text, i) ==
    IF i > Len(text) THEN <<>>
    ELSE LET k == LongestKey(table, text, i)
         IN Emitted(table, text, i, k) \o Scan(table, text, i + (IF k = 0 THEN 1 ELSE k))

\* C22: the generic transliterate scans the text left to right; at each
\* position it consumes the longest chunk of 4 down to 1 characters that is a
\* table key exactly or after lowercasing and emits its mapped output, copies a
\* character at which no chunk matches, and upper-cases the first character of
\* an output matched through lowercasing for a chunk that starts with an
\* uppercase letter (the whole output when it has one character).
C22_GreedyLongestMatch ==
    GenericDone => call.out = Scan(call.table, LoopText, 1)

\* "SHCH": the four letters are matched through lowercasing as one chunk and
\* the one-letter output is upper-cased
C22_Witness ==
    /\ GenericDone
    /\ call.text = <<"S", "H", "C", "H">>
    /\ call.out = <<"cSHCH">>

\* the rank of a POS in v < vaux < n < np < adj < adv < prn < det, every
\* other POS after these
RankOfPos(pos) ==
    LET order == <<"v", "vaux", "n", "np", "adj", "adv", "prn", "det">>
    IN IF \E i \in 1..Len(order) : order[i] = pos
       THEN CHOOSE i \in 1..Len(order) : order[i] = pos
       ELSE Len(order) + 1

\* reading a comes strictly before reading b: the first of FST weight, negated
\* context score, POS rank and number of feature tags in which they differ is
\* smaller for a
Before4(a, b) ==
    \/ a.weight < b.weight
    \/ /\ a.weight = b.weight
       /\ \/ - ScoreOf(a) < - ScoreOf(b)
          \/ /\ ScoreOf(a) = ScoreOf(b)
             /\ \/ RankOfPos(a.pos) < RankOfPos(b.pos)
                \/ /\ RankOfPos(a.pos) = RankOfPos(b.pos)
                   /\ Len(a.feats) < Len(b.feats)

\* C23: for a list of two or more candidates the reading _disambiguate returns
\* is a candidate of the list that no candidate comes strictly before in the
\* lexicographic order on (FST weight, negated context score, POS priority,
\* number of feature tags).
C23_MinimumOfCompositeKey ==
    (Len(dz.readings0) >= 2 /\ Len(dz.results) >= 1) =>
        /\ dz.results[1] \in Range(dz.readings0)
        /\ \A i \in 1..Len(dz.readings0) : ~Before4(dz.readings0[i], dz.results[1])

\* two candidates equal in weight and context score: the second of the list is
\* returned for its POS priority (a noun before a POS outside the table), or,
\* the POS being equal too, for its smaller number of feature tags
C23_Witness ==
    /\ Len(dz.results) >= 1
    /\ Len(dz.readings0) = 2
    /\ dz.readings0[1].weight = dz.readings0[2].weight
    /\ ScoreOf(dz.readings0[1]) = ScoreOf(dz.readings0[2])
    /\ dz.results[1] = dz.readings0[2]
    /\ dz.readings0[1] # dz.readings0[2]
    /\ \/ dz.readings0[1].pos = "post" /\ dz.readings0[2].pos = "n"
       \/ /\ dz.readings0[1].pos = dz.readings0[2].pos
          /\ Len(dz.readings0[2].feats) < Len(dz.readings0[1].feats)

\* _disambiguate was called on two or more candidates with a surface form
ScoredWithSurface ==
    Len(dz.results) >= 1 /\ Len(dz.readings0) >= 2 /\ dz.surface_text # NoneText

\* what the capitalisation of the surface adds to the score of r: the score
\* with the surface as given less the score with the surface in lower case
CapitalTerm(r) ==
    ScoreOf(r) - context_score(cfg, r, dz.sentence_words, dz.word_index, lower(dz.surface_text))

\* +1 for a proper-noun reading, -2 for an imperative verb reading
CapitalAdjustment(r) ==
    (IF r.pos = "np" THEN 1 ELSE 0)
    - (IF r.pos \in {"v", "vaux"} /\ "imp" \in Range(r.feats) THEN 2 ELSE 0)

\* the first character of the surface is an uppercase letter
SurfaceCapitalized == dz.surface_text # <<>> /\ category(dz.surface_text[1]) = "Lu"

\* the word is the first non-punctuation word of its sentence
SentenceInitial ==
    /\ dz.word_index # 0
    /\ \A j \in 1..(dz.word_index - 1) : is_punctuation_token(dz.sentence_words[j].text)

\* C24 as stated: the adjustment is applied when the surface is capitalized
\* and the word is not sentence-initial, and not applied to a capitalized
\* word in sentence-initial position.
C24_CapitalAdjustmentMidSentenceOnly ==
    (ScoredWithSurface /\ dz.word_index # 0) =>
        \A i \in 1..Len(dz.readings0) :
            CapitalTerm(dz.readings0[i]) =
                IF SurfaceCapitalized /\ ~SentenceInitial
                THEN CapitalAdjustment(dz.readings0[i]) ELSE 0

\* C24: the capitalisation adjustment of the context score (+1 for a
\* proper-noun reading, -2 for an imperative verb reading) is applied whenever
\* the surface form begins with an uppercase letter, in sentence-initial
\* position as anywhere else and also without sentence context; it is not
\* applied to a surface that does not begin with an uppercase letter.
C24_CapitalAdjustmentAnywhere ==
    ScoredWithSurface =>
        \A i \in 1..Len(dz.readings0) :
            CapitalTerm(dz.readings0[i]) =
                IF SurfaceCapitalized THEN CapitalAdjustment(dz.readings0[i]) ELSE 0

\* "Ala" is the first word of its sentence and not the last; of a noun and a
\* proper-noun reading of equal weight the proper noun is returned, which only
\* the adjustment can bring about
C24_Witness ==
    /\ ScoredWithSurface
    /\ SurfaceCapitalized
    /\ SentenceInitial
    /\ ~FinalWord
    /\ Len(dz.readings0) = 2
    /\ dz.readings0[1].pos = "n" /\ dz.readings0[2].pos = "np"
    /\ dz.readings0[1].weight = dz.readings0[2].weight
    /\ Range(dz.readings0[1].feats) \cap verbal_tags = {}
    /\ dz.results[1] = dz.readings0[2]

\* _disambiguate was called on two or more candidates
Scored == Len(dz.results) >= 1 /\ Len(dz.readings0) >= 2

\* the next non-punctuation word after the word is a question particle
ParticleFollows ==
    /\ dz.word_index # 0
    /\ \E j \in (dz.word_index + 1)..Len(dz.sentence_words) :
          /\ \A k \in (dz.word_index + 1)..(j - 1) :
                is_punctuation_token(dz.sentence_words[k].text)
          /\ ~is_punctuation_token(dz.sentence_words[j].text)
          /\ lower(dz.sentence_words[j].text) \in QUESTION_PARTICLES

\* a verb or auxiliary reading with a finite mood or tense feature
FiniteVerb(r) ==
    /\ r.pos \in {"v", "vaux"}
    /\ Range(r.feats) \cap {"past", "pres", "fut", "aor", "ifi",
                            "ind", "imp", "opt", "cond", "neces"} # {}

\* what the position of the word adds to the score of r
PositionTerm(r) ==
    ScoreOf(r) - context_score_no_position(cfg, r, dz.sentence_words, dz.word_index,
                                           dz.surface_text)

\* C25: for a word that is not the last non-punctuation word of its sentence,
\* and for a call without sentence context, a verb or auxiliary candidate with
\* a finite mood or tense feature gets -2 from its position unless the next
\* non-punctuation word is a question particle; every other candidate, and
\* every candidate before a question particle, gets nothing from its position.
C25_NonFinalFiniteVerbPenalty ==
    (Scored /\ ~FinalWord) =>
        \A i \in 1..Len(dz.readings0) :
            PositionTerm(dz.readings0[i]) =
                IF FiniteVerb(dz.readings0[i]) /\ ~ParticleFollows THEN -2 ELSE 0

\* the word stands before a full stop and the particle "ma": the tensed verb
\* is not penalized and is returned before a noun of equal weight
C25_Witness ==
    /\ Scored
    /\ ~FinalWord
    /\ ParticleFollows
    /\ is_punctuation_token(dz.sentence_words[dz.word_index + 1].text)
    /\ Len(dz.readings0) = 2
    /\ dz.readings0[1] = Reading(T_el, "n", <<"nom">>, 0)
    /\ FiniteVerb(dz.readings0[2])
    /\ PositionTerm(dz.readings0[2]) = 0
    /\ dz.results[1] = dz.readings0[2]

\* what the lexicon adds to the score of r: the score less the score of the
\* same processor without lexicon
BoostTerm(r) ==
    ScoreOf(r) - context_score([cfg EXCEPT !.lexicon = {}], r, dz.sentence_words,
                               dz.word_index, dz.surface_text)

\* the universal POS recorded in the lexicon under a key
RecordedUnder(key) ==
    UNION {{e[2][i][1] : i \in 1..Len(e[2])} : e \in {x \in cfg.lexicon : x[1] = key}}

\* the pipeline bridges scripts
Bridges == cfg.needs_translit /\ cfg.to_fst_translit # "None"

\* C26 as stated: the surface is matched after case and diacritic
\* normalization and, when the pipeline bridges scripts, also after
\* transliteration to the FST script.
C26_BoostForFoldedSurface ==
    (Scored /\ dz.surface_text # NoneText) =>
        \A i \in 1..Len(dz.readings0) :
            BoostTerm(dz.readings0[i]) =
                IF to_ud_pos(dz.readings0[i].pos) \in
                      (RecordedUnder(strip_diacritics(lower(dz.surface_text)))
                       \cup (IF Bridges
                             THEN RecordedUnder(strip_diacritics(lower(
                                      transliterate(cfg.to_fst_translit, dz.surface_text))))
                             ELSE {}))
                THEN 2 ELSE 0

\* the entries _lookup_lexicon finds: those under the lower-cased surface, and
\* when there are none and the pipeline bridges scripts, those under the
\* lower-cased transliterated surface
RecordedForSurface ==
    IF RecordedUnder(lower(dz.surface_text)) # {} THEN RecordedUnder(lower(dz.surface_text))
    ELSE IF Bridges
    THEN RecordedUnder(lower(transliterate(cfg.to_fst_translit, dz.surface_text)))
    ELSE {}

\* C26: a candidate's context score is increased by 2 when its mapped universal
\* POS is one of those recorded in the closed-class lexicon for the surface,
\* matched in lower case (diacritics are kept) and, when that finds nothing and
\* the pipeline bridges scripts, in lower case after transliteration to the
\* FST script; every other candidate gets no increase.
C26_BoostForLowercasedSurface ==
    (Scored /\ dz.surface_text # NoneText) =>
        \A i \in 1..Len(dz.readings0) :
            BoostTerm(dz.readings0[i]) =
                IF to_ud_pos(dz.readings0[i].pos) \in RecordedForSurface THEN 2 ELSE 0

\* a Latin-script processor over a Cyrillic FST: the particle reading of "Ma"
\* is boosted through the Cyrillic lexicon entry, the noun reading is not
C26_Witness ==
    /\ Scored
    /\ Bridges
    /\ dz.surface_text = <<"M", "a">>
    /\ RecordedUnder(lower(dz.surface_text)) = {}
    /\ \E i, j \in 1..Len(dz.readings0) :
          /\ dz.readings0[i].pos = "part"
          /\ BoostTerm(dz.readings0[i]) = 2
          /\ dz.readings0[j].pos = "n"
          /\ BoostTerm(dz.readings0[j]) = 0

\* the first call of the harness was Turkmen Cyrillic to Latin and has returned
TukToLatin ==
    /\ call.fn = "transliterate"
    /\ call.there = "tuk_Cyrl_to_Latn"
    /\ call.mid # NoneText

HardSigns == {"chs", "cHS"}
SoftSigns == {"css", "cSS"}
\* the letters after which the rule writes e in its semivowel form
VowelClass == {"ci", "cI", "coe", "cOE", "cue", "cUE", "cae", "cAE"}

\* text[i] is word-initial: first of the text or after a non-letter
WordInitial(text, i) == i = 1 \/ ~isalpha_ch(text[i - 1])

\* the Latin image of the letter at text[i] when the signs have no image and
\* e takes its semivowel form at the start of a word and after the letters of
\* `triggers`
ImageAt(text, i, triggers) ==
    IF text[i] \in HardSigns \cup SoftSigns THEN <<>>
    ELSE IF text[i] \in {"ce", "cE"}
    THEN (IF WordInitial(text, i) \/ text[i - 1] \in triggers
          THEN (IF text[i] = "ce" THEN <<"y^", "e">> ELSE <<"Y^", "e">>)
          ELSE (IF text[i] = "ce" THEN <<"e">> ELSE <<"E">>))
    ELSE IF has_key(TRANSLITERATION_TABLES("tuk_Cyrl_to_Latn"), <<text[i]>>)
    THEN map_get(TRANSLITERATION_TABLES("tuk_Cyrl_to_Latn"), <<text[i]>>)
    ELSE <<text[i]>>

ImageOf(text, triggers) == Flatten([i \in 1..Len(text) |-> ImageAt(text, i, triggers)])

\* C27 as stated: a hard or soft sign never produces output of its own; e is
\* written y-acute e when word-initial, after a vowel-class letter, or after a
\* hard or soft sign, and plain e otherwise.
C27_EitherSignGivesSemivowel ==
    TukToLatin => call.mid = ImageOf(call.text, VowelClass \cup HardSigns \cup SoftSigns)

\* C27: in Turkmen Cyrillic-to-Latin transliteration a hard or soft sign never
\* produces output of its own; e is written y-acute e (capital Y-acute e for
\* capital E) when it is word-initial, after one of the letters i, o-umlaut,
\* u-umlaut, a-umlaut of the rule, or after a hard sign, and plain e
\* otherwise: after a soft sign it is plain e.
C27_HardSignGivesSemivowel ==
    TukToLatin => call.mid = ImageOf(call.text, VowelClass \cup HardSigns)

\* 'l, hard sign, e' gives l y-acute e
C27_Witness ==
    /\ TukToLatin
    /\ call.text = <<"cl", "chs", "ce">>
    /\ call.mid = <<"l", "y^", "e">>

\* an Uzbek Latin-to-Cyrillic call has returned
UzbekDone == GenericDone /\ call.table = "uzb_Latn_to_Cyrl"

\* the text with every character of `variants` written as the apostrophe
Canonical(text, variants) ==
    [i \in 1..Len(text) |-> IF text[i] \in variants THEN "'" ELSE text[i]]

\* the quotes and modifier letters
QuotesAndModifiers == {"LSQ", "RSQ", "MTC", "MAP", "MPR"}

\* C28 as stated: every apostrophe variant (right single quote, modifier
\* letters, acute and grave accents, primes) is folded to the apostrophe
\* before table matching.
C28_EveryVariantIsFolded ==
    UzbekDone =>
        call.out = Scan("uzb_Latn_to_Cyrl",
                        Canonical(call.text, QuotesAndModifiers \cup {"GRAVE", "ACC", "PRM"}), 1)

\* C28: in Uzbek Latin-to-Cyrillic transliteration the left and right single
\* quotes, the modifier letters turned comma, apostrophe and prime, and the
\* grave accent are folded to the apostrophe before table matching, so o or g
\* followed by one of them gives the same Cyrillic letter as o' or g'; the
\* acute accent U+00B4 and the prime U+2032 are not folded and are copied.
C28_QuotesModifiersAndGraveAreFolded ==
    UzbekDone =>
        call.out = Scan("uzb_Latn_to_Cyrl",
                        Canonical(call.text, QuotesAndModifiers \cup {"GRAVE"}), 1)

\* o with the modifier letter turned comma, then g: short U, GHE
C28_Witness ==
    /\ UzbekDone
    /\ call.text = <<"o", "MTC", "g">>
    /\ call.out = <<"cuw", "cg">>

\* _analyze has returned
Analyzed == call.fn = "_analyze" /\ call.returned

\* t without the blanks and tabs at its ends
Trimmed(t) ==
    LET inked == {i \in 1..Len(t) : t[i] \notin {" ", "TAB"}}
    IN IF inked = {} THEN <<>>
       ELSE SubSeq(t, CHOOSE i \in inked : \A j \in inked : i <= j,
                      CHOOSE i \in inked : \A j \in inked : j <= i)

\* the text after the last c of t, t itself when it has no c
AfterLast(t, c) ==
    LET at == {i \in 1..Len(t) : t[i] = c}
    IN IF at = {} THEN t
       ELSE SubSeq(t, (CHOOSE i \in at : \A j \in at : j <= i) + 1, Len(t))

\* t without an enclosing ^...$ pair
Unwrapped(t) ==
    IF Len(t) >= 2 /\ t[1] = "^" /\ t[Len(t)] = "$" THEN SubSeq(t, 2, Len(t) - 1) ELSE t

\* the first index from `from` on where open...close with something between
\* them begins, 0 when there is none: <<where it begins, where it ends>>
Bracket(t, from, open, close) ==
    LET begins == {i \in from..(Len(t) - 2) :
                      /\ t[i] = open
                      /\ t[i + 1] # close
                      /\ \E j \in (i + 2)..Len(t) : t[j] = close}
        i == CHOOSE b \in begins : \A c \in begins : b <= c
        ends == {j \in (i + 2)..Len(t) : t[j] = close}
    IN IF begins = {} THEN <<0, 0>>
       ELSE <<i, CHOOSE j \in ends : \A k \in ends : j <= k>>

\* t without its @...@ markers, found left to right from `from` on
RECURSIVE Unmarked(_, _)
Unmarked(t, from) ==
    LET b == Bracket(t, from, "@", "@")
    IN IF b[1] = 0 THEN SubSeq(t, from, Len(t))
       ELSE SubSeq(t, from, b[1] - 1) \o Unmarked(t, b[2] + 1)

\* the contents of the <...> brackets of t, found left to right from `from` on
RECURSIVE TagsOf(_, _)
TagsOf(t, from) ==
    LET b == Bracket(t, from, "<", ">")
    IN IF b[1] = 0 THEN <<>>
       ELSE <<Cat(SubSeq(t, b[1] + 1, b[2] - 1))>> \o TagsOf(t, b[2] + 1)

\* the text of t before its first '<'
LemmaOf(t) ==
    LET at == {i \in 1..Len(t) : t[i] = "<"}
    IN IF at = {} THEN t ELSE SubSeq(t, 1, (CHOOSE i \in at : \A j \in at : i <= j) - 1)

\* the steps in the order of the claim: after the last tab, without the
\* enclosing ^...$, after the last '/', without the markers
Cleaned(raw) == Unmarked(AfterLast(Unwrapped(AfterLast(Trimmed(raw), "TAB")), "/"), 1)

\* the one reading made of a cleaned output
ReadingOf(raw, weight) ==
    [lemma |-> LemmaOf(Cleaned(raw)),
     pos |-> Head(TagsOf(Cleaned(raw), 1)),
     feats |-> Tail(TagsOf(Cleaned(raw), 1)),
     weight |-> weight,
     raw |-> raw]

\* C29 as stated: the steps are applied in this order; an output with zero
\* tags produces no reading and every other output produces the reading whose
\* lemma is the text before the first '<', whose pos is the first tag and
\* whose feats are the remaining tags in their order.
C29_ReadingUnlessNoTags ==
    Analyzed =>
        call.out = IF TagsOf(Cleaned(call.output_str), 1) = <<>> THEN <<>>
                   ELSE <<ReadingOf(call.output_str, call.weight)>>

\* C29: _analyze keeps the text after the last tab, strips an enclosing ^...$
\* pair, keeps the text after the last '/', removes the @...@ markers, takes
\* the lemma as the text before the first '<' and the contents of the <...>
\* brackets as tags, in this order; an output with zero tags or with nothing
\* before the first '<' produces no reading, every other output produces the
\* reading whose pos is the first tag and whose feats are the remaining tags
\* in their order, and no marker that was removed is in its lemma.
C29_ReadingUnlessNoTagsOrNoLemma ==
    Analyzed =>
        call.out = IF \/ TagsOf(Cleaned(call.output_str), 1) = <<>>
                      \/ LemmaOf(Cleaned(call.output_str)) = <<>>
                   THEN <<>>
                   ELSE <<ReadingOf(call.output_str, call.weight)>>

\* "@e@e<n>": the marker is removed and the lemma is "e"
C29_Witness ==
    /\ Analyzed
    /\ call.output_str = <<"@", "e", "@", "e", "<", "n", ">">>
    /\ call.out = <<[lemma |-> <<"e">>, pos |-> "n", feats |-> <<>>, weight |-> 5,
                     raw |-> call.output_str]>>

\* a reading has been mapped by a mapper of the common table
ReadingMapped == call.fn = "map_reading" /\ call.returned

\* the mood tags and the universal feature the common table writes for each
\* under its heading 'Mood'
MoodOf ==
    [t \in {"ind", "imp", "opt", "cond", "neces"} |->
        IF t = "ind" THEN "Mood=Ind"
        ELSE IF t = "imp" THEN "Mood=Imp"
        ELSE IF t = "opt" THEN "Mood=Opt"
        ELSE IF t = "cond" THEN "Mood=Cnd"
        ELSE "Mood=Nec"]

\* the mood tags other than ind keep their Mood feature on a verb
OtherMoodsAreKept ==
    (ReadingMapped /\ call.pos = "v") =>
        \A t \in (DOMAIN MoodOf \ {"ind"}) \cap Range(call.feats) :
            MoodOf[t] \in Range(call.raw_feats) /\ MoodOf[t] \in Range(call.out)

\* C30: with the common Turkic table each mood tag (ind, imp, opt, cond,
\* neces) of a reading maps to its Mood= feature, and a verb reading with the
\* tag ind has Mood=Ind in its final feature string, after the per-POS cleanup.
C30_IndicativeKeepsMood ==
    ReadingMapped =>
        /\ \A t \in DOMAIN MoodOf \cap Range(call.feats) : MoodOf[t] \in Range(call.raw_feats)
        /\ (call.pos = "v" /\ "ind" \in Range(call.feats)) => "Mood=Ind" \in Range(call.out)

\* what the code does with ind: it maps to PronType=Ind, which the cleanup
\* removes from a verb and keeps on a pronoun
IndicativeIsAPronounType ==
    (ReadingMapped /\ "ind" \in Range(call.feats)) =>
        /\ "PronType=Ind" \in Range(call.raw_feats)
        /\ "Mood=Ind" \notin Range(call.raw_feats)
        /\ call.pos = "v" => Range(call.out) \cap {"PronType=Ind", "Mood=Ind"} = {}
        /\ call.pos = "prn" => "PronType=Ind" \in Range(call.out)
====
